---------------------------- MODULE Spec2Model ----------------------------
(***************************************************************************)
(* A model of the CHIP-8 interpreter of this repository: the decoder       *)
(* (opcode.rs), the command conversion (command.rs), memory and stack      *)
(* (memory.rs), the register file (cpu.rs), the frame buffer (display.rs), *)
(* keypad and timers (io/) and the tick driver with its semantic routines  *)
(* (emulator.rs).                                                          *)
(*                                                                         *)
(* Rust panics (index out of range, arithmetic overflow of the test        *)
(* profile) are modelled by the flag `panicked`: the routine that faults   *)
(* stops where it faults and no operation runs after it.                   *)
(***************************************************************************)
EXTENDS Integers, Sequences, FiniteSets, TLC

VARIABLES
    configuration,  \* Emulator::configuration (shift, jump, r_register)
    cpu,            \* Cpu: pc, registers, i, delay, sound
    memory,         \* Memory::buffer: the map of its non-zero bytes (the rest are 0)
    stack,          \* Stack: ptr, buffer
    display,        \* DisplayBuffer::buffer, 256 bytes
    keyboard,       \* Keyboard::keys
    delay_timer,    \* Timer of the delay register: ms since its last_tick
    sound_timer,    \* Timer of the sound register: ms since its last_tick
    rng,            \* number of values drawn from the random source
    panicked,       \* a Rust panic has aborted the host
    last,           \* history: the operation that led to this state
    hist            \* history: bookkeeping of the host's bounded inputs

vars == <<configuration, cpu, memory, stack, display, keyboard,
          delay_timer, sound_timer, rng, panicked, last, hist>>

---------------------------------------------------------------------------
(* Fixed-width helpers.                                                    *)

U8 == 256

U16 == 65536

Pow2(k) == <<1, 2, 4, 8, 16, 32, 64, 128, 256>>[k + 1]

\* bit k (0 = least significant) of the byte b
Bit(b, k) == (b \div Pow2(k)) % 2

\* the byte whose bit k is f[k]
FromBits(f) == f[0] + 2 * f[1] + 4 * f[2] + 8 * f[3]
               + 16 * f[4] + 32 * f[5] + 64 * f[6] + 128 * f[7]

BitOr(a, b) == FromBits([k \in 0..7 |-> IF Bit(a, k) = 1 \/ Bit(b, k) = 1 THEN 1 ELSE 0])

BitAnd(a, b) == FromBits([k \in 0..7 |-> IF Bit(a, k) = 1 /\ Bit(b, k) = 1 THEN 1 ELSE 0])

BitXor(a, b) == FromBits([k \in 0..7 |-> IF Bit(a, k) # Bit(b, k) THEN 1 ELSE 0])

\* u8::reverse_bits
reverse_bits(b) == FromBits([k \in 0..7 |-> Bit(b, 7 - k)])

---------------------------------------------------------------------------
(* opcode.rs: the decoder.  An OpCode is a variant tag with the raw word.  *)

HexChars == <<"0", "1", "2", "3", "4", "5", "6", "7",
              "8", "9", "A", "B", "C", "D", "E", "F">>

\* format!("{:4X}", opcode): upper-case hex without leading zeros, padded on
\* the left with spaces to four characters
raw_opcode_chars(opcode) ==
    LET d == <<opcode \div 4096, (opcode \div 256) % 16,
               (opcode \div 16) % 16, opcode % 16>>
        lead == IF d[1] # 0 THEN 1
                ELSE IF d[2] # 0 THEN 2
                ELSE IF d[3] # 0 THEN 3 ELSE 4
    IN [p \in 1..4 |-> IF p < lead THEN " " ELSE HexChars[d[p] + 1]]

OpCode(tag, value) == [tag |-> tag, value |-> value]

decode_8_opcodes(repr, value) ==
    IF repr[4] = "0" THEN OpCode("LoadRegister", value)
    ELSE IF repr[4] = "1" THEN OpCode("Or", value)
    ELSE IF repr[4] = "2" THEN OpCode("And", value)
    ELSE IF repr[4] = "3" THEN OpCode("Xor", value)
    ELSE IF repr[4] = "4" THEN OpCode("AddWithCarry", value)
    ELSE IF repr[4] = "5" THEN OpCode("Sub", value)
    ELSE IF repr[4] = "6" THEN OpCode("Shr", value)
    ELSE IF repr[4] = "7" THEN OpCode("SubInverse", value)
    ELSE IF repr[4] = "E" THEN OpCode("Shl", value)
    ELSE OpCode("Invalid", value)

decode_f_opcodes(repr, value) ==
    IF repr[3] = "0" /\ repr[4] = "7" THEN OpCode("LoadDelay", value)
    ELSE IF repr[3] = "0" /\ repr[4] = "A" THEN OpCode("WaitKeyPress", value)
    ELSE IF repr[3] = "1" /\ repr[4] = "5" THEN OpCode("SetDelay", value)
    ELSE IF repr[3] = "1" /\ repr[4] = "8" THEN OpCode("SetSound", value)
    ELSE IF repr[3] = "1" /\ repr[4] = "E" THEN OpCode("AddI", value)
    ELSE IF repr[3] = "2" /\ repr[4] = "9" THEN OpCode("LoadSprite", value)
    ELSE IF repr[3] = "3" /\ repr[4] = "3" THEN OpCode("LoadBcd", value)
    ELSE IF repr[3] = "5" /\ repr[4] = "5" THEN OpCode("DumpAll", value)
    ELSE IF repr[3] = "6" /\ repr[4] = "5" THEN OpCode("LoadAll", value)
    ELSE OpCode("Invalid", value)

\* impl From<u16> for OpCode: the arms in the order of the match
decode(value) ==
    LET repr == raw_opcode_chars(value)
    IN IF repr[1] = " " /\ repr[2] = " " /\ repr[3] = "E"
       THEN (IF repr[4] = "0" THEN OpCode("ClearScreen", value)
             ELSE IF repr[4] = "E" THEN OpCode("Return", value)
             ELSE OpCode("Invalid", value))
       ELSE IF repr[1] = "1" THEN OpCode("Jump", value)
       ELSE IF repr[1] = "2" THEN OpCode("Call", value)
       ELSE IF repr[1] = "3" THEN OpCode("SkipIfRegisterEqualsValue", value)
       ELSE IF repr[1] = "4" THEN OpCode("SkipIfRegisterNotEqualsValue", value)
       ELSE IF repr[1] = "5" THEN OpCode("SkipIfRegistersAreEqual", value)
       ELSE IF repr[1] = "6" THEN OpCode("Load", value)
       ELSE IF repr[1] = "7" THEN OpCode("Add", value)
       ELSE IF repr[1] = "8" THEN decode_8_opcodes(repr, value)
       ELSE IF repr[1] = "9" THEN OpCode("SkipIfRegistersAreNotEqual", value)
       ELSE IF repr[1] = "A" THEN OpCode("LoadI", value)
       ELSE IF repr[1] = "B" THEN OpCode("JumpV0", value)
       ELSE IF repr[1] = "C" THEN OpCode("RandomAnd", value)
       ELSE IF repr[1] = "D" THEN OpCode("DrawSprite", value)
       ELSE IF repr[1] = "E" /\ repr[3] = "9" /\ repr[4] = "E"
            THEN OpCode("SkipIfKeyPressed", value)
       ELSE IF repr[1] = "E" /\ repr[3] = "A" /\ repr[4] = "1"
            THEN OpCode("SkipIfKeyNotPressed", value)
       ELSE IF repr[1] = "F" THEN decode_f_opcodes(repr, value)
       ELSE OpCode("Invalid", value)

---------------------------------------------------------------------------
(* command.rs: operand extraction (u16 shifts keep their width) and the    *)
(* conversion of an OpCode into a Command.                                 *)

skip_first_nibble(w) == ((w * 16) % U16) \div 16

nibble_1(w) == ((w * 16) % U16) \div 4096

\* operand extraction with the second nibble's shift dropped
nibble_2_unshifted(w) == ((w * 256) % U16) \div 256

nibble_2(w) == ((w * 256) % U16) \div 4096

nibble_3(w) == ((w * 4096) % U16) \div 4096

back(w) == ((w * 256) % U16) \div 256

\* impl From<OpCode> for Command
command_from(op) ==
    LET v == op.value
        t == op.tag
    IN CASE t = "ClearScreen" -> [name |-> "ClearScreen"]
         [] t = "Return" -> [name |-> "ReturnFromSubroutine"]
         [] t = "Jump" -> [name |-> "Jump", address |-> skip_first_nibble(v)]
         [] t = "JumpV0" -> [name |-> "JumpOffset", address |-> skip_first_nibble(v),
                             register |-> nibble_1(v)]
         [] t = "Call" -> [name |-> "Call", address |-> skip_first_nibble(v)]
         [] t = "SkipIfRegisterEqualsValue" ->
                [name |-> "SkipIfValueEqual", register |-> nibble_1(v), value |-> back(v)]
         [] t = "SkipIfRegisterNotEqualsValue" ->
                [name |-> "SkipIfValueNotEqual", register |-> nibble_1(v), value |-> back(v)]
         [] t = "SkipIfRegistersAreEqual" ->
                [name |-> "SkipIfRegisterEqual", register_a |-> nibble_1(v),
                 register_b |-> nibble_2(v)]
         [] t = "SkipIfRegistersAreNotEqual" ->
                [name |-> "SkipIfRegisterNotEqual", register_a |-> nibble_1(v),
                 register_b |-> nibble_2(v)]
         [] t = "Load" -> [name |-> "Load", register |-> nibble_1(v), value |-> back(v)]
         [] t = "LoadRegister" ->
                [name |-> "CopyRegister", write |-> nibble_1(v), read |-> nibble_2(v)]
         [] t = "LoadI" -> [name |-> "LoadI", value |-> skip_first_nibble(v)]
         [] t = "Add" -> [name |-> "Add", register |-> nibble_1(v), value |-> back(v)]
         [] t = "AddWithCarry" ->
                [name |-> "AddRegisters", write |-> nibble_1(v), read |-> nibble_2(v)]
         [] t = "AddI" -> [name |-> "AddI", read |-> nibble_1(v)]
         [] t = "Or" -> [name |-> "Or", write |-> nibble_1(v), read |-> nibble_2(v)]
         [] t = "And" -> [name |-> "And", write |-> nibble_1(v), read |-> nibble_2(v)]
         [] t = "RandomAnd" ->
                [name |-> "RandomAnd", register |-> nibble_1(v), value |-> back(v)]
         [] t = "Xor" -> [name |-> "Xor", write |-> nibble_1(v), read |-> nibble_2(v)]
         [] t = "Sub" -> [name |-> "Sub", write |-> nibble_1(v), read |-> nibble_2(v)]
         [] t = "SubInverse" ->
                [name |-> "SubInverse", write |-> nibble_1(v), read |-> nibble_2(v)]
         [] t = "Shr" -> [name |-> "ShiftRight", write |-> nibble_1(v), read |-> nibble_2(v)]
         [] t = "Shl" -> [name |-> "ShiftLeft", write |-> nibble_1(v), read |-> nibble_2(v)]
         [] t = "DrawSprite" ->
                [name |-> "DrawSprite", register_x |-> nibble_1(v),
                 register_y |-> nibble_2(v), value |-> nibble_3(v)]
         [] t = "SkipIfKeyPressed" -> [name |-> "SkipIfKeyPressed", key_register |-> nibble_1(v)]
         [] t = "SkipIfKeyNotPressed" ->
                [name |-> "SkipIfKeyNotPressed", key_register |-> nibble_1(v)]
         [] t = "WaitKeyPress" -> [name |-> "WaitKeyPress", register |-> nibble_1(v)]
         [] t = "LoadDelay" -> [name |-> "LoadDelay", register |-> nibble_1(v)]
         [] t = "SetDelay" -> [name |-> "SetDelay", register |-> nibble_1(v)]
         [] t = "SetSound" -> [name |-> "SetSound", register |-> nibble_1(v)]
         [] t = "LoadSprite" -> [name |-> "LoadSpriteDigitIntoI", read_register |-> nibble_1(v)]
         [] t = "LoadBcd" -> [name |-> "LoadBcd", read_register |-> nibble_1(v)]
         [] t = "LoadAll" -> [name |-> "LoadAll", until_register |-> nibble_1(v)]
         [] t = "DumpAll" -> [name |-> "DumpAll", until_register |-> nibble_1(v)]
         [] t = "Invalid" -> [name |-> "NoOp"]

---------------------------------------------------------------------------
(* The emulator as a record, so that the routines compose inside one tick. *)

CHIP8_START == 512

MEMORY_SIZE == 4096

STACK_SIZE == 16

DISPLAY_WIDTH == 64

DISPLAY_HEIGHT == 32

DISPLAY_BYTES == 256

FONT_START == 80

TICKS_PER_SECOND == 60

\* the font table of load_font_sprites, 16 sprites of 5 bytes
FontSprites ==
    <<240, 144, 144, 144, 240,   32,  96,  32,  32, 112,
      240,  16, 240, 128, 240,  240,  16, 240,  16, 240,
      144, 144, 240,  16,  16,  240, 128, 240,  16, 240,
      240, 128, 240, 144, 240,  240,  16,  32,  64,  64,
      240, 144, 240, 144, 240,  240, 144, 240,  16, 240,
      240, 144, 240, 144, 144,  224, 144, 224, 144, 224,
      240, 128, 128, 128, 240,  224, 144, 144, 144, 224,
      240, 128, 240, 128, 240,  240, 128, 240, 128, 128>>

Panic(e) == [e EXCEPT !.panicked = TRUE]

\* Cpu::new
CpuNew == [pc |-> CHIP8_START, registers |-> [r \in 0..15 |-> 0],
           i |-> 0, delay |-> 0, sound |-> 0]

\* Stack::new
StackNew == [ptr |-> 0, buffer |-> [s \in 0..(STACK_SIZE - 1) |-> 0]]

\* DisplayBuffer::new, DisplayBuffer::clear
DisplayNew == [b \in 0..(DISPLAY_BYTES - 1) |-> 0]

\* Keyboard::new
KeyboardNew == [k \in 0..15 |-> FALSE]

\* EmulatorConfiguration::default
ConfigurationDefault ==
    [shift |-> "ShiftInPlace", jump |-> "OffsetVariable", r_register |-> "StaticIRegister"]

\* The 4096-byte buffer is held as the map of its non-zero bytes: byte ptr of
\* the buffer (Memory::read_u8 for ptr < MEMORY_SIZE)
read_u8(buffer, ptr) == IF ptr \in DOMAIN buffer THEN buffer[ptr] ELSE 0

\* the buffer with byte ptr set to value (the assignment of Memory::write_u8)
store_u8(buffer, ptr, value) ==
    IF value = 0
    THEN [a \in DOMAIN buffer \ {ptr} |-> buffer[a]]
    ELSE [a \in DOMAIN buffer \cup {ptr} |-> IF a = ptr THEN value ELSE buffer[a]]

\* Memory::new
MemoryNew == [a \in {} |-> 0]

\* Memory::copy_from_slice on a buffer; the slice must fit (checked by the callers)
copy_from_slice(buffer, ptr, values) ==
    LET inside(a) == a >= ptr /\ a < ptr + Len(values)
        kept == {a \in DOMAIN buffer : ~inside(a)}
        written == {a \in ptr..(ptr + Len(values) - 1) : values[a - ptr + 1] # 0}
    IN [a \in kept \cup written |-> IF inside(a) THEN values[a - ptr + 1] ELSE buffer[a]]

\* the font table copied to the start of the memory instead of 0x050
MemoryWithFontAtZero == copy_from_slice(MemoryNew, 0, FontSprites)

\* Memory::new followed by load_font_sprites
MemoryWithFont == copy_from_slice(MemoryNew, FONT_START, FontSprites)

\* Memory::clear_public
clear_public(buffer) == [a \in {x \in DOMAIN buffer : x < CHIP8_START} |-> buffer[a]]

\* Memory::read_u16: big-endian, buffer[ptr] is the high byte
read_u16(buffer, ptr) == read_u8(buffer, ptr) * 256 + read_u8(buffer, ptr + 1)

\* a write that stores the low byte first
write_u16_little_endian(buffer, ptr, value) ==
    store_u8(store_u8(buffer, ptr, value % 256), ptr + 1, value \div 256)

\* Memory::write_u16
write_u16(buffer, ptr, value) ==
    store_u8(store_u8(buffer, ptr, value \div 256), ptr + 1, value % 256)

\* Memory::write_u8 inside the emulator: an index past the buffer panics
write_u8(e, ptr, value) ==
    IF ptr >= MEMORY_SIZE THEN Panic(e)
    ELSE [e EXCEPT !.memory = store_u8(@, ptr, value)]

\* a push that wraps around a full stack
push_wrapping(e, value) ==
    [e EXCEPT !.stack.buffer[e.stack.ptr % STACK_SIZE] = value,
              !.stack.ptr = (@ % STACK_SIZE) + 1]

\* Stack::push: buffer[ptr] = value; ptr += 1
push(e, value) ==
    IF e.stack.ptr >= STACK_SIZE THEN Panic(e)
    ELSE [e EXCEPT !.stack.buffer[e.stack.ptr] = value, !.stack.ptr = @ + 1]

\* a program counter that steps over one byte only
advance_pc_by_one(e) ==
    IF e.cpu.pc + 1 >= U16 THEN Panic(e) ELSE [e EXCEPT !.cpu.pc = @ + 1]

\* Cpu::advance_pc, Cpu::rollback_pc
advance_pc(e) ==
    IF e.cpu.pc + 2 >= U16 THEN Panic(e) ELSE [e EXCEPT !.cpu.pc = @ + 2]

rollback_pc(e) ==
    IF e.cpu.pc < 2 THEN Panic(e) ELSE [e EXCEPT !.cpu.pc = @ - 2]

\* Cpu::carry_on, Cpu::carry_off
carry_on(e) == [e EXCEPT !.cpu.registers[15] = 1]

carry_off(e) == [e EXCEPT !.cpu.registers[15] = 0]

\* DisplayBuffer::pos_to_index
pos_to_index(x, y) == (y * DISPLAY_WIDTH) \div 8 + x \div 8

\* BIT_MASKS[sub_index]
BIT_MASKS(sub_index) == Pow2(7 - sub_index)

\* a flip that can only turn a pixel on
flip_pixel_sets(buffer, x, y) ==
    LET index == pos_to_index(x, y)
        sub_index == x % 8
        was_on == BitAnd(buffer[index], BIT_MASKS(sub_index)) # 0
    IN [buffer |-> IF was_on THEN buffer
                   ELSE [buffer EXCEPT ![index] = @ + BIT_MASKS(sub_index)],
        is_turned_off |-> was_on,
        panicked |-> FALSE]

\* DisplayBuffer::flip_pixel on a buffer: the new buffer, whether the pixel was on,
\* and whether the index was outside the buffer
flip_pixel(buffer, x, y) ==
    LET index == pos_to_index(x, y)
        sub_index == x % 8
    IN IF index >= DISPLAY_BYTES
       THEN [buffer |-> buffer, is_turned_off |-> FALSE, panicked |-> TRUE]
       ELSE [buffer |-> [buffer EXCEPT ![index] = BitXor(@, BIT_MASKS(sub_index))],
             is_turned_off |-> BitAnd(buffer[index], BIT_MASKS(sub_index)) # 0,
             panicked |-> FALSE]

\* DisplayBuffer::is_pixel_on
is_pixel_on(buffer, x, y) ==
    BitAnd(buffer[pos_to_index(x, y)], BIT_MASKS(x % 8)) # 0

\* Timer::tick: the steps since last_tick, truncated to u8
timer_steps(elapsed) == ((elapsed * TICKS_PER_SECOND) \div 1000) % U8

\* Emulator::update_delay_register
update_delay_register(e) ==
    IF e.cpu.delay > 0
    THEN LET steps == timer_steps(e.delay_timer)
         IN [e EXCEPT !.delay_timer = 0,
                      !.cpu.delay = IF steps > @ THEN 0 ELSE @ - steps]
    ELSE e

\* Emulator::update_sound_register
update_sound_register(e) ==
    IF e.cpu.sound > 0
    THEN LET steps == timer_steps(e.sound_timer)
         IN [e EXCEPT !.sound_timer = 0,
                      !.cpu.sound = IF steps > @ THEN 0 ELSE @ - steps]
    ELSE e

---------------------------------------------------------------------------
(* emulator.rs: the semantic routines.  Each takes the emulator record and *)
(* returns it after the routine.                                           *)

Reg(e, index) == e.cpu.registers[index]

\* a clear that wipes the program's memory along with the screen
clear_screen_and_memory(e) ==
    [e EXCEPT !.display = DisplayNew, !.memory = clear_public(@)]

clear_screen(e) == [e EXCEPT !.display = DisplayNew]

\* a return that reads the slot above the one it frees
return_from_subroutine_stale(e) ==
    IF e.stack.ptr = 0 THEN Panic(e)
    ELSE [e EXCEPT !.stack.ptr = @ - 1, !.cpu.pc = e.stack.buffer[e.stack.ptr % STACK_SIZE]]

\* Stack::pop inside return_from_subroutine: ptr -= 1 underflows on an empty stack
return_from_subroutine(e) ==
    IF e.stack.ptr = 0 THEN Panic(e)
    ELSE [e EXCEPT !.stack.ptr = @ - 1,
                   !.cpu.pc = e.stack.buffer[e.stack.ptr - 1]]

\* a call that forgets the return address
call_subroutine_no_push(e, address) == [e EXCEPT !.cpu.pc = address]

call_subroutine(e, address) ==
    LET pushed == push(e, e.cpu.pc)
    IN IF pushed.panicked THEN pushed ELSE [pushed EXCEPT !.cpu.pc = address]

\* a jump that leaves a return address on the stack, as a call does
jump_and_push(e, address) == [push(e, e.cpu.pc) EXCEPT !.cpu.pc = address]

jump(e, address) == [e EXCEPT !.cpu.pc = address]

jump_offset(e, address) == jump(e, address + Reg(e, 0))

\* a variable offset that is read from V0
jump_offset_variable_v0(e, address, register) == jump(e, address + Reg(e, 0))

jump_offset_variable(e, address, register) == jump(e, address + Reg(e, register))

skip_if_value_eq(e, register, value) ==
    IF Reg(e, register) = value THEN advance_pc(e) ELSE e

skip_if_value_neq(e, register, value) ==
    IF Reg(e, register) # value THEN advance_pc(e) ELSE e

skip_if_registers_eq(e, register_a, register_b) ==
    IF Reg(e, register_a) = Reg(e, register_b) THEN advance_pc(e) ELSE e

skip_if_registers_neq(e, register_a, register_b) ==
    IF Reg(e, register_a) # Reg(e, register_b) THEN advance_pc(e) ELSE e

\* Keyboard::is_pressed indexes keys[key]: a key above 15 panics
skip_if_key_pressed(e, key_register) ==
    IF Reg(e, key_register) > 15 THEN Panic(e)
    ELSE IF e.keyboard[Reg(e, key_register)] THEN advance_pc(e) ELSE e

skip_if_key_not_pressed(e, key_register) ==
    IF Reg(e, key_register) > 15 THEN Panic(e)
    ELSE IF ~e.keyboard[Reg(e, key_register)] THEN advance_pc(e) ELSE e

load(e, register, value) == [e EXCEPT !.cpu.registers[register] = value]

copy_register(e, write, read) == [e EXCEPT !.cpu.registers[write] = Reg(e, read)]

load_i(e, value) == [e EXCEPT !.cpu.i = value]

font_sprite_address(character) == FONT_START + character * 5

load_sprite_key_into_i(e, key_register) ==
    [e EXCEPT !.cpu.i = font_sprite_address(Reg(e, key_register))]

\* digits whose tens are not reduced modulo 10
load_bcd_tens_unreduced(e, read) ==
    LET value == Reg(e, read)
        address == e.cpu.i
        e1 == write_u8(e, address + 0, value \div 100)
        e2 == IF e1.panicked THEN e1 ELSE write_u8(e1, address + 1, value \div 10)
    IN IF e2.panicked THEN e2 ELSE write_u8(e2, address + 2, value % 10)

load_bcd(e, read) ==
    LET value == Reg(e, read)
        address == e.cpu.i
        e1 == write_u8(e, address + 0, value \div 100)
        e2 == IF e1.panicked THEN e1 ELSE write_u8(e1, address + 1, (value \div 10) % 10)
    IN IF e2.panicked THEN e2 ELSE write_u8(e2, address + 2, value % 10)

\* an addition with the checked operator +, which faults on overflow
add_checked(e, register, value) ==
    IF Reg(e, register) + value > 255 THEN Panic(e)
    ELSE [e EXCEPT !.cpu.registers[register] = @ + value]

\* u8::wrapping_add
add(e, register, value) ==
    [e EXCEPT !.cpu.registers[register] = (@ + value) % U8]

\* an addition that raises the flag on a carry and never lowers it
add_registers_stale_flag(e, write, read) ==
    LET a == Reg(e, write)
        b == Reg(e, read)
    IN IF a + b > 255
       THEN carry_on([e EXCEPT !.cpu.registers[write] = (a + b) % U8])
       ELSE [e EXCEPT !.cpu.registers[write] = a + b]

\* the register is written first, the flag second
add_registers(e, write, read) ==
    LET a == Reg(e, write)
        b == Reg(e, read)
    IN IF a + b > 255
       THEN carry_on([e EXCEPT !.cpu.registers[write] = (a + b) % U8])
       ELSE carry_off([e EXCEPT !.cpu.registers[write] = a + b])

\* an addition to I that reports a result above 0xFFF in VF
add_i_flags_overflow(e, register) ==
    IF e.cpu.i + Reg(e, register) >= U16 THEN Panic(e)
    ELSE [e EXCEPT !.cpu.i = @ + Reg(e, register),
                   !.cpu.registers[15] = IF e.cpu.i + Reg(e, register) > 4095 THEN 1 ELSE 0]

add_i(e, register) ==
    IF e.cpu.i + Reg(e, register) >= U16 THEN Panic(e)
    ELSE [e EXCEPT !.cpu.i = @ + Reg(e, register)]

or(e, write, read) ==
    [e EXCEPT !.cpu.registers[write] = BitOr(@, Reg(e, read))]

and(e, write, read) ==
    [e EXCEPT !.cpu.registers[write] = BitAnd(@, Reg(e, read))]

xor(e, write, read) ==
    [e EXCEPT !.cpu.registers[write] = BitXor(@, Reg(e, read))]

\* a source that mixes the clock into the byte it yields
random_and_clocked(e, register, value, random_byte) ==
    [e EXCEPT !.cpu.registers[register] =
                  BitAnd(value, (random_byte + e.delay_timer) % U8),
              !.rng = @ + 1]

\* value & (rand_u32() >> 24) as u8; random_byte is the byte the source yields
random_and(e, register, value, random_byte) ==
    [e EXCEPT !.cpu.registers[register] = BitAnd(value, random_byte),
              !.rng = @ + 1]

\* a subtraction that sets the flag on the no-borrow path only
sub_with_borrow_sets_only(e, a, b, write) ==
    IF a < b
    THEN [e EXCEPT !.cpu.registers[write] = (a - b + U8) % U8]
    ELSE [carry_on(e) EXCEPT !.cpu.registers[write] = a - b]

\* sub_with_borrow sets the flag, then the caller writes the difference
sub_with_borrow(e, a, b, write) ==
    IF a < b
    THEN [carry_off(e) EXCEPT !.cpu.registers[write] = (a - b + U8) % U8]
    ELSE [carry_on(e) EXCEPT !.cpu.registers[write] = a - b]

sub(e, write, read) == sub_with_borrow(e, Reg(e, write), Reg(e, read), write)

sub_inverse(e, write, read) == sub_with_borrow(e, Reg(e, read), Reg(e, write), write)

shift_right_in_place(e, register) ==
    LET rightmost == Bit(Reg(e, register), 0)
        shifted == [e EXCEPT !.cpu.registers[register] = @ \div 2]
    IN IF rightmost = 1 THEN carry_on(shifted) ELSE carry_off(shifted)

shift_right(e, write, read) == shift_right_in_place(copy_register(e, write, read), write)

\* a left shift that tests the lowest bit for its flag
shift_left_in_place_lsb(e, register) ==
    LET leftmost == Bit(Reg(e, register), 0)
        shifted == [e EXCEPT !.cpu.registers[register] = (@ * 2) % U8]
    IN IF leftmost = 1 THEN carry_on(shifted) ELSE carry_off(shifted)

shift_left_in_place(e, register) ==
    LET leftmost == Bit(Reg(e, register), 7)
        shifted == [e EXCEPT !.cpu.registers[register] = (@ * 2) % U8]
    IN IF leftmost = 1 THEN carry_on(shifted) ELSE carry_off(shifted)

shift_left(e, write, read) == shift_left_in_place(copy_register(e, write, read), write)

\* for i in 0..=until_register, from register i on
RECURSIVE load_all_static_from(_, _, _, _)
load_all_static_from(e, start_address, until_register, i) ==
    IF i > until_register THEN e
    ELSE IF start_address + i >= MEMORY_SIZE THEN Panic(e)
    ELSE load_all_static_from(
             [e EXCEPT !.cpu.registers[i] = read_u8(e.memory, start_address + i)],
             start_address, until_register, i + 1)

load_all_static(e, until_register) ==
    load_all_static_from(e, e.cpu.i, until_register, 0)

RECURSIVE load_all_variable_from(_, _, _)
load_all_variable_from(e, until_register, i) ==
    IF i > until_register THEN e
    ELSE IF e.cpu.i + i >= MEMORY_SIZE THEN Panic([e EXCEPT !.cpu.i = @ + i])
    ELSE load_all_variable_from(
             [e EXCEPT !.cpu.i = @ + i, !.cpu.registers[i] = read_u8(e.memory, e.cpu.i + i)],
             until_register, i + 1)

load_all_variable(e, until_register) == load_all_variable_from(e, until_register, 0)

RECURSIVE dump_all_static_from(_, _, _, _)
dump_all_static_from(e, start_address, until_register, i) ==
    IF i > until_register THEN e
    ELSE IF start_address + i >= MEMORY_SIZE THEN Panic(e)
    ELSE dump_all_static_from(
             [e EXCEPT !.memory = store_u8(@, start_address + i, Reg(e, i))],
             start_address, until_register, i + 1)

\* a static dump that moves I past the registers it stored
dump_all_static_moves_i(e, until_register) ==
    [dump_all_static_from(e, e.cpu.i, until_register, 0)
        EXCEPT !.cpu.i = @ + until_register + 1]

dump_all_static(e, until_register) ==
    dump_all_static_from(e, e.cpu.i, until_register, 0)

RECURSIVE dump_all_variable_from(_, _, _)
dump_all_variable_from(e, until_register, i) ==
    IF i > until_register THEN e
    ELSE IF e.cpu.i + i >= MEMORY_SIZE THEN Panic([e EXCEPT !.cpu.i = @ + i])
    ELSE dump_all_variable_from(
             [e EXCEPT !.cpu.i = @ + i, !.memory = store_u8(@, e.cpu.i + i, Reg(e, i))],
             until_register, i + 1)

dump_all_variable(e, until_register) == dump_all_variable_from(e, until_register, 0)

\* the right-edge test of draw: the row stops when it holds
x_out_of_screen(x_pos) == x_pos > 64

\* the bottom-edge test of draw: the sprite stops when it holds
y_out_of_screen(y_pos) == y_pos > 32

\* the inner loop of draw, for x_offset in 0..u8::BITS, from x_offset on;
\* d is [buffer, did_turn_off_pixel, panicked]
RECURSIVE draw_columns(_, _, _, _, _)
draw_columns(d, sprite_row, x, y_pos, x_offset) ==
    IF x_offset >= 8 THEN d
    ELSE IF x_out_of_screen(x + x_offset) THEN d
    ELSE IF Bit(sprite_row, x_offset) # 1
         THEN draw_columns(d, sprite_row, x, y_pos, x_offset + 1)
    ELSE LET f == flip_pixel(d.buffer, x + x_offset, y_pos)
         IN IF f.panicked THEN [d EXCEPT !.panicked = TRUE]
            ELSE draw_columns([buffer |-> f.buffer,
                               did_turn_off_pixel |-> d.did_turn_off_pixel \/ f.is_turned_off,
                               panicked |-> FALSE],
                              sprite_row, x, y_pos, x_offset + 1)

\* the outer loop of draw, over the addresses start_address..start_address + height
RECURSIVE draw_rows(_, _, _, _, _, _, _)
draw_rows(d, buffer, x, y, start_address, height, y_offset) ==
    IF y_offset >= height THEN d
    ELSE IF y_out_of_screen(y + y_offset) THEN d
    ELSE IF start_address + y_offset >= MEMORY_SIZE THEN [d EXCEPT !.panicked = TRUE]
    ELSE LET sprite_row == reverse_bits(read_u8(buffer, start_address + y_offset))
             row == draw_columns(d, sprite_row, x, y + y_offset, 0)
         IN IF row.panicked THEN row
            ELSE draw_rows(row, buffer, x, y, start_address, height, y_offset + 1)

draw(e, register_x, register_y, value) ==
    LET x == Reg(e, register_x) % 64
        y == Reg(e, register_y) % 32
        d == draw_rows([buffer |-> e.display, did_turn_off_pixel |-> FALSE,
                        panicked |-> FALSE],
                       e.memory, x, y, e.cpu.i, value, 0)
        drawn == [e EXCEPT !.display = d.buffer]
    IN IF d.panicked THEN Panic(drawn)
       ELSE IF d.did_turn_off_pixel THEN carry_on(drawn)
       ELSE drawn

\* a wait that takes the key off the keypad once it has read it
wait_key_consumes(e, key_register, key) ==
    IF key > 15 THEN Panic(e)
    ELSE IF e.keyboard[key]
         THEN [e EXCEPT !.cpu.registers[key_register] = key, !.keyboard[key] = FALSE]
    ELSE rollback_pc(e)

\* key is the key the command hands to the routine
wait_key(e, key_register, key) ==
    IF key > 15 THEN Panic(e)
    ELSE IF e.keyboard[key] THEN [e EXCEPT !.cpu.registers[key_register] = key]
    ELSE rollback_pc(e)

load_delay(e, register) == [e EXCEPT !.cpu.registers[register] = e.cpu.delay]

\* delay_timer.tick() resets the timer's last_tick
set_delay(e, register) ==
    [e EXCEPT !.delay_timer = 0, !.cpu.delay = Reg(e, register)]

set_sound(e, register) ==
    [e EXCEPT !.sound_timer = 0, !.cpu.sound = Reg(e, register)]

---------------------------------------------------------------------------
(* emulator.rs: dispatch and the tick driver.                              *)

\* Emulator::execute; key is the key handed over by Command::WaitKeyPress and
\* random_byte the byte drawn by RandomAnd
execute(e, command, key, random_byte) ==
    LET n == command.name
    IN CASE n = "ClearScreen" -> clear_screen(e)
         [] n = "ReturnFromSubroutine" -> return_from_subroutine(e)
         [] n = "Jump" -> jump(e, command.address)
         [] n = "SkipIfValueEqual" -> skip_if_value_eq(e, command.register, command.value)
         [] n = "SkipIfValueNotEqual" -> skip_if_value_neq(e, command.register, command.value)
         [] n = "SkipIfRegisterEqual" ->
                skip_if_registers_eq(e, command.register_a, command.register_b)
         [] n = "SkipIfRegisterNotEqual" ->
                skip_if_registers_neq(e, command.register_a, command.register_b)
         [] n = "Load" -> load(e, command.register, command.value)
         [] n = "CopyRegister" -> copy_register(e, command.write, command.read)
         [] n = "LoadI" -> load_i(e, command.value)
         [] n = "Add" -> add(e, command.register, command.value)
         [] n = "AddRegisters" -> add_registers(e, command.write, command.read)
         [] n = "AddI" -> add_i(e, command.read)
         [] n = "JumpOffset" ->
                IF e.configuration.jump = "OffsetFromV0"
                THEN jump_offset(e, command.address)
                ELSE jump_offset_variable(e, command.address, command.register)
         [] n = "Call" -> call_subroutine(e, command.address)
         [] n = "LoadSpriteDigitIntoI" -> load_sprite_key_into_i(e, command.read_register)
         [] n = "LoadBcd" -> load_bcd(e, command.read_register)
         [] n = "Or" -> or(e, command.write, command.read)
         [] n = "And" -> and(e, command.write, command.read)
         [] n = "Xor" -> xor(e, command.write, command.read)
         [] n = "Sub" -> sub(e, command.write, command.read)
         [] n = "SubInverse" -> sub_inverse(e, command.write, command.read)
         [] n = "ShiftRight" ->
                IF e.configuration.shift = "CopyThenShift"
                THEN shift_right(e, command.write, command.read)
                ELSE shift_right_in_place(e, command.write)
         [] n = "ShiftLeft" ->
                IF e.configuration.shift = "CopyThenShift"
                THEN shift_left(e, command.write, command.read)
                ELSE shift_left_in_place(e, command.write)
         [] n = "RandomAnd" -> random_and(e, command.register, command.value, random_byte)
         [] n = "DrawSprite" -> draw(e, command.register_x, command.register_y, command.value)
         [] n = "SkipIfKeyPressed" -> skip_if_key_pressed(e, command.key_register)
         [] n = "SkipIfKeyNotPressed" -> skip_if_key_not_pressed(e, command.key_register)
         [] n = "LoadDelay" -> load_delay(e, command.register)
         [] n = "SetDelay" -> set_delay(e, command.register)
         [] n = "SetSound" -> set_sound(e, command.register)
         [] n = "WaitKeyPress" -> wait_key(e, command.register, key)
         [] n = "DumpAll" ->
                IF e.configuration.r_register = "AffectIRegister"
                THEN dump_all_variable(e, command.until_register)
                ELSE dump_all_static(e, command.until_register)
         [] n = "LoadAll" ->
                IF e.configuration.r_register = "AffectIRegister"
                THEN load_all_variable(e, command.until_register)
                ELSE load_all_static(e, command.until_register)
         [] n = "NoOp" -> e

\* the first two statements of Emulator::tick
update_timers(e) == update_sound_register(update_delay_register(e))

\* the slice buffer[ptr..=ptr + 1] of read_u16 must lie inside the buffer
can_load_op(e) == e.cpu.pc + 1 < MEMORY_SIZE

\* the word load_op fetches
fetched_word(e) == read_u16(e.memory, e.cpu.pc)

\* a tick that gives up on a word the decoder does not know
tick_invalid_fails(e, key, random_byte) ==
    LET timed == update_timers(e)
    IN IF ~can_load_op(timed) THEN Panic(timed)
       ELSE LET opcode == fetched_word(timed)
                loaded == advance_pc(timed)
            IN IF loaded.panicked \/ decode(opcode).tag = "Invalid" THEN Panic(loaded)
               ELSE execute(loaded, command_from(decode(opcode)), key, random_byte)

\* a tick that executes with the configuration the emulator was built with
tick_default_configuration(e, key, random_byte) ==
    LET timed == update_timers(e)
    IN IF ~can_load_op(timed) THEN Panic(timed)
       ELSE LET opcode == fetched_word(timed)
                loaded == advance_pc(timed)
                built == [loaded EXCEPT !.configuration = ConfigurationDefault]
            IN IF loaded.panicked THEN loaded
               ELSE [execute(built, command_from(decode(opcode)), key, random_byte)
                        EXCEPT !.configuration = e.configuration]

\* Emulator::tick: timers, load_op (fetch, advance_pc), decode, execute
tick(e, key, random_byte) ==
    LET timed == update_timers(e)
    IN IF ~can_load_op(timed) THEN Panic(timed)
       ELSE LET opcode == fetched_word(timed)
                loaded == advance_pc(timed)
            IN IF loaded.panicked THEN loaded
               ELSE execute(loaded, command_from(decode(opcode)), key, random_byte)

\* Emulator::new
EmulatorNew ==
    [configuration |-> ConfigurationDefault, cpu |-> CpuNew, memory |-> MemoryWithFont,
     stack |-> StackNew, display |-> DisplayNew, keyboard |-> KeyboardNew,
     delay_timer |-> 0, sound_timer |-> 0, rng |-> 0, panicked |-> FALSE]

\* Emulator::with_rom
with_rom(e, rom) ==
    IF CHIP8_START + Len(rom) > MEMORY_SIZE THEN Panic(e)
    ELSE [e EXCEPT !.memory = copy_from_slice(@, CHIP8_START, rom)]

\* Emulator::load_rom
load_rom(e, rom) ==
    LET reset == [e EXCEPT !.cpu = CpuNew, !.memory = clear_public(@),
                           !.stack = StackNew, !.display = DisplayNew]
    IN with_rom(reset, rom)

\* a key that changes its state at every press
press_key_toggles(e, key) ==
    IF key > 15 THEN Panic(e) ELSE [e EXCEPT !.keyboard[key] = ~@]

\* Emulator::press_key, Emulator::release_key
press_key(e, key) ==
    IF key > 15 THEN Panic(e) ELSE [e EXCEPT !.keyboard[key] = TRUE]

release_key(e, key) ==
    IF key > 15 THEN Panic(e) ELSE [e EXCEPT !.keyboard[key] = FALSE]

---------------------------------------------------------------------------
(* The state machine: the host constructs an emulator with a ROM and then  *)
(* calls tick, press_key and release_key, while the clock advances.        *)

\* the emulator record of the current state
Emu ==
    [configuration |-> configuration, cpu |-> cpu, memory |-> memory, stack |-> stack,
     display |-> display, keyboard |-> keyboard, delay_timer |-> delay_timer,
     sound_timer |-> sound_timer, rng |-> rng, panicked |-> panicked]

\* the next state holds the emulator record e
SetEmu(e) ==
    /\ configuration' = e.configuration
    /\ cpu' = e.cpu
    /\ memory' = e.memory
    /\ stack' = e.stack
    /\ display' = e.display
    /\ keyboard' = e.keyboard
    /\ delay_timer' = e.delay_timer
    /\ sound_timer' = e.sound_timer
    /\ rng' = e.rng
    /\ panicked' = e.panicked

\* the word abcd in hexadecimal digits
W(a, b, c, d) == a * 4096 + b * 256 + c * 16 + d

\* a ROM: the big-endian bytes of the words, followed by data bytes
RomBytes(words, data) ==
    [k \in 1..(2 * Len(words)) |->
        IF k % 2 = 1 THEN words[(k + 1) \div 2] \div 256 ELSE words[k \div 2] % 256]
    \o data

\* bounds of the host's inputs
MaxAdvances == 3

MaxKeyEvents == 2

MaxKey == 1

\* milliseconds the clock may advance between two calls of the host
Durations == {16, 500, 4300}

\* the keys the host presses and releases
HostKeys == 0..MaxKey

\* the key a WaitKeyPress command can hand to wait_key: the conversion that
\* fills the field sees the opcode word only, never the keypad
KeyOperands == 0..15

\* bytes the random source yields
RandomBytes == {0, 165, 255}

HistNew == [advances |-> 0, key_events |-> 0, configures |-> 0, loads |-> 0,
            flips |-> 0, pixel |-> <<0, 0>>, writes |-> 0, fetches |-> 0,
            twin |-> <<>>, stream |-> <<>>, leaked |-> FALSE,
            calls |-> <<>>, delay_set |-> -1, delay_since |-> 0, delay_ticks |-> 0,
            sound_set |-> -1, sound_since |-> 0, sound_ticks |-> 0, executed |-> {}]

\* the selector a command consults when it executes, "" when it consults none
ConsultedStyle(c, command) ==
    CASE command.name \in {"ShiftRight", "ShiftLeft"} -> c.shift
      [] command.name = "JumpOffset" -> c.jump
      [] command.name \in {"DumpAll", "LoadAll"} -> c.r_register
      [] OTHER -> ""

\* the command a tick is about to execute
NextCommand(e) ==
    IF can_load_op(e) THEN command_from(decode(fetched_word(e))) ELSE [name |-> "NoOp"]

\* history of a tick: the shadow stack of pending return addresses, the value
\* and age of the last FX15 and of the last FX18 with the ticks run since (0,
\* 1, or 2 for more), and the styles each quirk command has run under
HistAfterTick(command, before, after) ==
    [hist EXCEPT
        !.calls = IF after.panicked THEN @
                  ELSE IF command.name = "Call" THEN Append(@, before.cpu.pc + 2)
                  ELSE IF command.name = "ReturnFromSubroutine"
                       THEN SubSeq(@, 1, Len(@) - 1)
                  ELSE @,
        !.delay_set = IF command.name = "SetDelay" /\ ~after.panicked
                      THEN before.cpu.registers[command.register] ELSE @,
        !.delay_since = IF command.name = "SetDelay" /\ ~after.panicked THEN 0 ELSE @,
        !.delay_ticks = IF command.name = "SetDelay" /\ ~after.panicked THEN 0
                        ELSE IF @ < 2 THEN @ + 1 ELSE @,
        !.sound_set = IF command.name = "SetSound" /\ ~after.panicked
                      THEN before.cpu.registers[command.register] ELSE @,
        !.sound_since = IF command.name = "SetSound" /\ ~after.panicked THEN 0 ELSE @,
        !.sound_ticks = IF command.name = "SetSound" /\ ~after.panicked THEN 0
                        ELSE IF @ < 2 THEN @ + 1 ELSE @,
        !.executed = IF ConsultedStyle(before.configuration, command) = "" THEN @
                     ELSE @ \cup {<<command.name,
                                    ConsultedStyle(before.configuration, command)>>}]

\* the host calls Emulator::tick
Tick ==
    /\ ~panicked
    /\ LET command == NextCommand(Emu)
       IN \E key \in IF command.name = "WaitKeyPress" THEN KeyOperands ELSE {0},
             random_byte \in IF command.name = "RandomAnd" THEN RandomBytes ELSE {0} :
             LET after == tick(Emu, key, random_byte)
             IN /\ SetEmu(after)
                /\ last' = [op |-> "tick", command |-> command, cpu |-> cpu]
                /\ hist' = HistAfterTick(command, Emu, after)

\* the host calls press_key
PressKey ==
    /\ ~panicked
    /\ hist.key_events < MaxKeyEvents
    /\ \E key \in HostKeys :
          /\ SetEmu(press_key(Emu, key))
          /\ last' = [op |-> "press_key", key |-> key]
    /\ hist' = [hist EXCEPT !.key_events = @ + 1]

\* the host calls release_key
ReleaseKey ==
    /\ ~panicked
    /\ hist.key_events < MaxKeyEvents
    /\ \E key \in HostKeys :
          /\ SetEmu(release_key(Emu, key))
          /\ last' = [op |-> "release_key", key |-> key]
    /\ hist' = [hist EXCEPT !.key_events = @ + 1]

\* wall-clock time passes: both timers' last_tick lie d ms further back
Advance ==
    /\ ~panicked
    /\ hist.advances < MaxAdvances
    /\ \E d \in Durations :
          /\ delay_timer' = delay_timer + d
          /\ sound_timer' = sound_timer + d
          /\ last' = [op |-> "advance", ms |-> d]
          /\ hist' = [hist EXCEPT !.advances = @ + 1, !.delay_since = @ + d,
                                  !.sound_since = @ + d]
    /\ UNCHANGED <<configuration, cpu, memory, stack, display, keyboard, rng, panicked>>

\* the state after Emulator::new().with_rom(rom)
InitWith(roms) ==
    \E rom \in roms :
        LET e == with_rom(EmulatorNew, rom)
        IN /\ configuration = e.configuration
           /\ cpu = e.cpu
           /\ memory = e.memory
           /\ stack = e.stack
           /\ display = e.display
           /\ keyboard = e.keyboard
           /\ delay_timer = e.delay_timer
           /\ sound_timer = e.sound_timer
           /\ rng = e.rng
           /\ panicked = e.panicked
           /\ last = [op |-> "new"]
           /\ hist = HistNew

\* 6005 F015 F30A 1206: set the delay timer, wait for a key, stay
WaitRom == RomBytes(<<W(6, 0, 0, 5), W(15, 0, 1, 5), W(15, 3, 0, 10), W(1, 2, 0, 6)>>, <<>>)

\* 60vv F015 F018 F107 1206: set both timers to v, then read the delay for ever
TimerRom(v) ==
    RomBytes(<<W(6, 0, v \div 16, v % 16), W(15, 0, 1, 5), W(15, 0, 1, 8),
               W(15, 1, 0, 7), W(1, 2, 0, 6)>>, <<>>)

TimerValues == {3, 60}

Roms == {WaitRom} \cup {TimerRom(v) : v \in TimerValues}

Init == InitWith(Roms)

Next == Tick \/ PressKey \/ ReleaseKey \/ Advance

Spec == Init /\ [][Next]_vars

---------------------------------------------------------------------------
(* Subroutines: programs of nested calls, run by ticks alone.              *)

\* depth nested calls: the call of level k sits at 0x200 + 4k and is followed
\* by the return of level k (a jump to itself at level 0); the innermost
\* subroutine is a lone return
ChainRom(depth) ==
    RomBytes([j \in 1..(2 * depth + 1) |->
                 IF j = 2 * depth + 1 THEN W(0, 0, 14, 14)
                 ELSE IF j % 2 = 1 THEN W(2, 0, 0, 0) + CHIP8_START + 2 * (j + 1)
                 ELSE IF j = 2 THEN W(1, 2, 0, 2)
                 ELSE W(0, 0, 14, 14)], <<>>)

\* 2200: a subroutine that calls itself
RecursionRom == RomBytes(<<W(2, 2, 0, 0)>>, <<>>)

\* 2300 at 0x200 and 00EE at 0x300
SubroutineRom == RomBytes(<<W(2, 3, 0, 0)>>, [k \in 1..254 |-> 0] \o <<0, 238>>)

CallRoms == {ChainRom(depth) : depth \in 1..STACK_SIZE} \cup {RecursionRom, SubroutineRom}

InitCall == InitWith(CallRoms)

NextCall == Tick

SpecCall == InitCall /\ [][NextCall]_vars

---------------------------------------------------------------------------
(* Drawing: programs that load the coordinates and VF, point I at sprite   *)
(* data and draw the sprite three times, run by ticks alone.               *)

SpriteData == <<255, 129, 0, 255, 24, 255, 255, 255, 255, 255, 255, 255, 255, 255, 255>>

\* 60xx 61yy 6Fff A212 D01n D01n D01n 120E 0000, sprite data at 0x212
DrawRom(vx, vy, n, vf) ==
    RomBytes(<<W(6, 0, vx \div 16, vx % 16), W(6, 1, vy \div 16, vy % 16),
               W(6, 15, vf \div 16, vf % 16), W(10, 2, 1, 2),
               W(13, 0, 1, n), W(13, 0, 1, n), W(13, 0, 1, n),
               W(1, 2, 0, 14), 0>>, SpriteData)

DrawXs == {0, 10, 56, 57, 60, 63, 74, 255}

DrawYs == {0, 5, 30, 31, 37}

DrawHeights == {0, 1, 2, 3, 15}

DrawFlags == {0, 1}

DrawRoms == {DrawRom(vx, vy, n, vf) :
                vx \in DrawXs, vy \in DrawYs, n \in DrawHeights, vf \in DrawFlags}

InitDraw == InitWith(DrawRoms)

NextDraw == Tick

SpecDraw == InitDraw /\ [][NextDraw]_vars

---------------------------------------------------------------------------
(* The decoder as a pure function: every 16-bit word is decoded once.      *)

Words == 0..(U16 - 1)

\* the state of a freshly constructed emulator, with the word to decode
InitWord ==
    \E w \in Words :
        /\ configuration = ConfigurationDefault
        /\ cpu = CpuNew
        /\ memory = MemoryWithFont
        /\ stack = StackNew
        /\ display = DisplayNew
        /\ keyboard = KeyboardNew
        /\ delay_timer = 0
        /\ sound_timer = 0
        /\ rng = 0
        /\ panicked = FALSE
        /\ last = [op |-> "word", word |-> w]
        /\ hist = HistNew

\* the two conversions of tick: u16 into OpCode, OpCode into Command
DecodeWord ==
    /\ last.op = "word"
    /\ last' = [op |-> "decode", word |-> last.word, opcode |-> decode(last.word),
                command |-> command_from(decode(last.word))]
    /\ UNCHANGED <<configuration, cpu, memory, stack, display, keyboard,
                   delay_timer, sound_timer, rng, panicked, hist>>

NextDecode == DecodeWord

SpecDecode == InitWord /\ [][NextDecode]_vars

---------------------------------------------------------------------------
(* The opcode table of the specification, read off the bits of the word.   *)

FieldX(w) == (w \div 256) % 16

FieldY(w) == (w \div 16) % 16

FieldN(w) == w % 16

FieldNN(w) == w % 256

FieldNNN(w) == w % 4096

\* the table pattern a word matches, "other" when it matches none
TablePattern(w) ==
    LET top == w \div 4096
    IN CASE w = 224 -> "00E0"
         [] w = 238 -> "00EE"
         [] top = 1 -> "1NNN"
         [] top = 2 -> "2NNN"
         [] top = 3 -> "3XNN"
         [] top = 4 -> "4XNN"
         [] top = 5 /\ FieldN(w) = 0 -> "5XY0"
         [] top = 6 -> "6XNN"
         [] top = 7 -> "7XNN"
         [] top = 8 /\ FieldN(w) \in 0..7 ->
                <<"8XY0", "8XY1", "8XY2", "8XY3", "8XY4", "8XY5", "8XY6", "8XY7">>[FieldN(w) + 1]
         [] top = 8 /\ FieldN(w) = 14 -> "8XYE"
         [] top = 9 /\ FieldN(w) = 0 -> "9XY0"
         [] top = 10 -> "ANNN"
         [] top = 11 -> "BNNN"
         [] top = 12 -> "CXNN"
         [] top = 13 -> "DXYN"
         [] top = 14 /\ FieldNN(w) = 158 -> "EX9E"
         [] top = 14 /\ FieldNN(w) = 161 -> "EXA1"
         [] top = 15 /\ FieldNN(w) = 7 -> "FX07"
         [] top = 15 /\ FieldNN(w) = 10 -> "FX0A"
         [] top = 15 /\ FieldNN(w) = 21 -> "FX15"
         [] top = 15 /\ FieldNN(w) = 24 -> "FX18"
         [] top = 15 /\ FieldNN(w) = 30 -> "FX1E"
         [] top = 15 /\ FieldNN(w) = 41 -> "FX29"
         [] top = 15 /\ FieldNN(w) = 51 -> "FX33"
         [] top = 15 /\ FieldNN(w) = 85 -> "FX55"
         [] top = 15 /\ FieldNN(w) = 101 -> "FX65"
         [] OTHER -> "other"

\* the variant and operands the table assigns to a word that matches a pattern
TableCommand(w) ==
    LET p == TablePattern(w)
        X == FieldX(w)
        Y == FieldY(w)
        N == FieldN(w)
        NN == FieldNN(w)
        NNN == FieldNNN(w)
    IN CASE p = "00E0" -> [name |-> "ClearScreen"]
         [] p = "00EE" -> [name |-> "ReturnFromSubroutine"]
         [] p = "1NNN" -> [name |-> "Jump", address |-> NNN]
         [] p = "2NNN" -> [name |-> "Call", address |-> NNN]
         [] p = "3XNN" -> [name |-> "SkipIfValueEqual", register |-> X, value |-> NN]
         [] p = "4XNN" -> [name |-> "SkipIfValueNotEqual", register |-> X, value |-> NN]
         [] p = "5XY0" -> [name |-> "SkipIfRegisterEqual", register_a |-> X, register_b |-> Y]
         [] p = "6XNN" -> [name |-> "Load", register |-> X, value |-> NN]
         [] p = "7XNN" -> [name |-> "Add", register |-> X, value |-> NN]
         [] p = "8XY0" -> [name |-> "CopyRegister", write |-> X, read |-> Y]
         [] p = "8XY1" -> [name |-> "Or", write |-> X, read |-> Y]
         [] p = "8XY2" -> [name |-> "And", write |-> X, read |-> Y]
         [] p = "8XY3" -> [name |-> "Xor", write |-> X, read |-> Y]
         [] p = "8XY4" -> [name |-> "AddRegisters", write |-> X, read |-> Y]
         [] p = "8XY5" -> [name |-> "Sub", write |-> X, read |-> Y]
         [] p = "8XY6" -> [name |-> "ShiftRight", write |-> X, read |-> Y]
         [] p = "8XY7" -> [name |-> "SubInverse", write |-> X, read |-> Y]
         [] p = "8XYE" -> [name |-> "ShiftLeft", write |-> X, read |-> Y]
         [] p = "9XY0" -> [name |-> "SkipIfRegisterNotEqual", register_a |-> X, register_b |-> Y]
         [] p = "ANNN" -> [name |-> "LoadI", value |-> NNN]
         [] p = "BNNN" -> [name |-> "JumpOffset", address |-> NNN, register |-> X]
         [] p = "CXNN" -> [name |-> "RandomAnd", register |-> X, value |-> NN]
         [] p = "DXYN" -> [name |-> "DrawSprite", register_x |-> X, register_y |-> Y,
                           value |-> N]
         [] p = "EX9E" -> [name |-> "SkipIfKeyPressed", key_register |-> X]
         [] p = "EXA1" -> [name |-> "SkipIfKeyNotPressed", key_register |-> X]
         [] p = "FX07" -> [name |-> "LoadDelay", register |-> X]
         [] p = "FX0A" -> [name |-> "WaitKeyPress", register |-> X]
         [] p = "FX15" -> [name |-> "SetDelay", register |-> X]
         [] p = "FX18" -> [name |-> "SetSound", register |-> X]
         [] p = "FX1E" -> [name |-> "AddI", read |-> X]
         [] p = "FX29" -> [name |-> "LoadSpriteDigitIntoI", read_register |-> X]
         [] p = "FX33" -> [name |-> "LoadBcd", read_register |-> X]
         [] p = "FX55" -> [name |-> "DumpAll", until_register |-> X]
         [] p = "FX65" -> [name |-> "LoadAll", until_register |-> X]
         [] OTHER -> [name |-> "NoOp"]

\* the variants of enum OpCode
OpCodeTags ==
    {"ClearScreen", "Return", "Jump", "JumpV0", "Call", "SkipIfRegisterEqualsValue",
     "SkipIfRegisterNotEqualsValue", "SkipIfRegistersAreEqual",
     "SkipIfRegistersAreNotEqual", "Load", "LoadRegister", "LoadI", "Add",
     "AddWithCarry", "AddI", "Or", "And", "RandomAnd", "Xor", "Sub", "SubInverse",
     "Shr", "Shl", "DrawSprite", "SkipIfKeyPressed", "SkipIfKeyNotPressed",
     "WaitKeyPress", "LoadDelay", "SetDelay", "SetSound", "LoadSprite", "LoadBcd",
     "LoadAll", "DumpAll", "Invalid"}

Decoded == last.op = "decode"

C10_UnlistedWordsAreInvalid ==
    (Decoded /\ TablePattern(last.word) = "other") =>
        /\ last.opcode.tag = "Invalid"
        /\ last.command = [name |-> "NoOp"]

---------------------------------------------------------------------------
(* Properties of one tick, read between the state before and the state     *)
(* after it.                                                               *)

\* this step is a tick that ran to its end
TickStep == last'.op = "tick" /\ ~panicked'

\* C8: subroutines return in LIFO order: a tick executing 2NNN at address a
\* sets PC to NNN and pushes a + 2, and a tick executing 00EE sets PC to the
\* most recently pushed address that has not been returned to yet, for every
\* nesting of up to 16 calls.
C8_SubroutinesReturnLifo ==
    [][TickStep =>
        /\ last'.command.name = "Call" =>
              /\ cpu'.pc = last'.command.address
              /\ stack'.ptr = stack.ptr + 1
              /\ stack'.buffer[stack.ptr] = cpu.pc + 2
              /\ \A k \in 0..(stack.ptr - 1) : stack'.buffer[k] = stack.buffer[k]
        /\ last'.command.name = "ReturnFromSubroutine" =>
              /\ hist.calls # <<>>
              /\ cpu'.pc = hist.calls[Len(hist.calls)]
              /\ stack'.ptr = stack.ptr - 1
        /\ Len(hist'.calls) = stack'.ptr
        /\ Len(hist'.calls) <= STACK_SIZE]_vars

\* the return of the 16th nested call, back to the instruction after its call
C8_Witness ==
    /\ last.op = "tick"
    /\ ~panicked
    /\ last.command.name = "ReturnFromSubroutine"
    /\ stack.ptr = STACK_SIZE - 1
    /\ Len(hist.calls) = STACK_SIZE - 1
    /\ cpu.pc = CHIP8_START + 4 * (STACK_SIZE - 1) + 2

---------------------------------------------------------------------------
(* Drawing, stated on the pixels of the 64 x 32 screen.                    *)

ScreenColumns == 0..(DISPLAY_WIDTH - 1)

ScreenRows == 0..(DISPLAY_HEIGHT - 1)

\* this step is a tick that executed DXYN to its end
DrawStep == TickStep /\ last'.command.name = "DrawSprite"

DrawX0 == cpu.registers[last'.command.register_x] % DISPLAY_WIDTH

DrawY0 == cpu.registers[last'.command.register_y] % DISPLAY_HEIGHT

DrawN == last'.command.value

\* bit c, most significant first, of sprite row r
SpriteBit(r, c) == Bit(read_u8(memory, cpu.i + r), 7 - c)

\* the sprite covers the on-screen pixel (px, py) with a set bit
SpriteCovers(px, py) ==
    \E r \in 0..(DrawN - 1), c \in 0..7 :
        /\ px = DrawX0 + c
        /\ py = DrawY0 + r
        /\ SpriteBit(r, c) = 1

PixelBefore(px, py) == is_pixel_on(display, px, py)

PixelAfter(px, py) == is_pixel_on(display', px, py)

\* C3: after DXYN every on-screen pixel under the sprite is its prior value
\* XOR the sprite bit, every other pixel is unchanged, and I, memory and all
\* registers other than VF are unchanged.
C3_DrawXorsSpriteOnly ==
    [][DrawStep =>
        /\ \A px \in ScreenColumns, py \in ScreenRows :
              PixelAfter(px, py) = (PixelBefore(px, py) # SpriteCovers(px, py))
        /\ cpu'.i = cpu.i
        /\ memory' = memory
        /\ \A r \in 0..14 : cpu'.registers[r] = cpu.registers[r]]_vars

\* C4: after DXYN, VF is 1 if at least one pixel went from on to off and 0
\* otherwise, whatever VF held before the instruction.
C4_DrawSetsCollisionFlag ==
    [][DrawStep =>
        cpu'.registers[15] =
            IF \E px \in ScreenColumns, py \in ScreenRows :
                  PixelBefore(px, py) /\ ~PixelAfter(px, py)
            THEN 1 ELSE 0]_vars

\* C5: DXYN clips at the right edge: when x0 + 8 > 64 no pixel in a column
\* left of x0 and no pixel in a row outside y0..y0+N-1 is modified.
C5_DrawClipsRightEdge ==
    [][(DrawStep /\ DrawX0 + 8 > DISPLAY_WIDTH) =>
        \A px \in ScreenColumns, py \in ScreenRows :
            (px < DrawX0 \/ py < DrawY0 \/ py > DrawY0 + DrawN - 1)
                => PixelAfter(px, py) = PixelBefore(px, py)]_vars

\* C6: DXYN clips at the bottom edge: when y0 + N > 32 the tick completes
\* without an out-of-range access to the frame buffer, the rows from 32 on
\* are not drawn and the rows y0..31 are drawn as usual.
C6_DrawClipsBottomEdge ==
    [][(last'.op = "tick" /\ last'.command.name = "DrawSprite"
            /\ DrawY0 + DrawN > DISPLAY_HEIGHT) =>
        /\ ~panicked'
        /\ \A px \in DrawX0..(DISPLAY_WIDTH - 1), py \in DrawY0..(DISPLAY_HEIGHT - 1) :
              PixelAfter(px, py) = (PixelBefore(px, py) # SpriteCovers(px, py))]_vars

---------------------------------------------------------------------------
(* The program counter, the timers and the keypad across ticks.            *)

PressedKeys == {k \in 0..15 : keyboard[k]}

LowestPressedKey == CHOOSE k \in PressedKeys : \A j \in PressedKeys : k <= j

\* the command of this tick is a skip whose condition holds before the tick
TakenSkip(c) ==
    \/ c.name = "SkipIfValueEqual" /\ cpu.registers[c.register] = c.value
    \/ c.name = "SkipIfValueNotEqual" /\ cpu.registers[c.register] # c.value
    \/ c.name = "SkipIfRegisterEqual"
          /\ cpu.registers[c.register_a] = cpu.registers[c.register_b]
    \/ c.name = "SkipIfRegisterNotEqual"
          /\ cpu.registers[c.register_a] # cpu.registers[c.register_b]
    \/ c.name = "SkipIfKeyPressed"
          /\ cpu.registers[c.key_register] \in PressedKeys
    \/ c.name = "SkipIfKeyNotPressed"
          /\ cpu.registers[c.key_register] \notin PressedKeys

\* the commands the rule PC' = PC + 2 leaves out
ChangesFlow(c) ==
    \/ c.name \in {"Jump", "JumpOffset", "Call", "ReturnFromSubroutine"}
    \/ TakenSkip(c)
    \/ c.name = "WaitKeyPress" /\ PressedKeys = {}

\* C1: a tick updates the timers, fetches the word at PC, adds 2 to PC, decodes
\* and executes: for every instruction that is not a jump, a call, a return, a
\* taken skip or a WaitKey with no key pressed, PC after the tick is PC before
\* the tick plus 2, and FX07 reads the delay already decremented by that tick.
C1_TickAdvancesPc ==
    [][last'.op = "tick" =>
        /\ ~ChangesFlow(last'.command) => cpu'.pc = cpu.pc + 2
        /\ last'.command.name = "LoadDelay" =>
              cpu'.registers[last'.command.register] = cpu'.delay]_vars

\* C2: the delay register counts down at 60 Hz whatever the spacing of the
\* ticks: T milliseconds after FX15 wrote it (T below 256 timer steps), it has
\* decreased by floor(T * 60 / 1000), clamped at 0, within one step.
C2_DelayCountsAt60Hz ==
    (/\ last.op = "tick"
     /\ hist.delay_set >= 0
     /\ hist.delay_since * TICKS_PER_SECOND < U8 * 1000) =>
        LET steps == (hist.delay_since * TICKS_PER_SECOND) \div 1000
            expected == IF steps > hist.delay_set THEN 0 ELSE hist.delay_set - steps
        IN cpu.delay \in (expected - 1)..(expected + 1)

\* C7: FX0A on a tick where a key is pressed sets Vx to the lowest pressed key
\* and leaves PC 2 past the instruction; on a tick where no key is pressed it
\* leaves PC at the FX0A and changes no register, memory, stack or frame buffer.
C7_WaitKeyTakesLowestPressedKey ==
    [][(last'.op = "tick" /\ last'.command.name = "WaitKeyPress") =>
        IF PressedKeys # {}
        THEN /\ ~panicked'
             /\ cpu'.registers[last'.command.register] = LowestPressedKey
             /\ cpu'.pc = cpu.pc + 2
        ELSE /\ cpu'.pc = cpu.pc
             /\ cpu'.registers = cpu.registers
             /\ cpu'.i = cpu.i
             /\ memory' = memory
             /\ stack' = stack
             /\ display' = display]_vars

---------------------------------------------------------------------------
(* Unknown opcodes: programs that set up registers, I, the frame buffer,   *)
(* the delay timer and the stack, then run into a word the decoder does    *)
(* not know, followed by 7001.                                             *)

\* words of every family for which the decoder yields Invalid
InvalidWords ==
    {0, 225, 239, 291, 4095, 32776, 35519, 57344, 57759, 61440, 61951, 65382}

\* 6005 F029 D005 F015 220C 120A w 7001 1210
InvalidRom(w) ==
    RomBytes(<<W(6, 0, 0, 5), W(15, 0, 2, 9), W(13, 0, 0, 5), W(15, 0, 1, 5),
               W(2, 2, 0, 12), W(1, 2, 0, 10), w, W(7, 0, 0, 1), W(1, 2, 1, 0)>>, <<>>)

InvalidRoms == {InvalidRom(w) : w \in InvalidWords}

InitInvalid == InitWith(InvalidRoms)

NextInvalid == Tick \/ PressKey \/ ReleaseKey

SpecInvalid == InitInvalid /\ [][NextInvalid]_vars

\* the word at PC before this step is one the decoder yields Invalid for
FetchesUnknownOpcode ==
    /\ last'.op = "tick"
    /\ can_load_op(Emu)
    /\ decode(fetched_word(Emu)).tag = "Invalid"

\* C11: a tick that fetches an unknown opcode never fails and is a no-op: PC
\* has advanced by 2 and the V registers, I, the stack, memory, the frame
\* buffer and the keypad are unchanged; the tick that follows executes the
\* next word.
C11_UnknownOpcodeIsNoOp ==
    [][/\ FetchesUnknownOpcode =>
            /\ ~panicked'
            /\ last'.command = [name |-> "NoOp"]
            /\ cpu'.pc = cpu.pc + 2
            /\ cpu'.registers = cpu.registers
            /\ cpu'.i = cpu.i
            /\ stack' = stack
            /\ memory' = memory
            /\ display' = display
            /\ keyboard' = keyboard
       /\ (last.op = "tick" /\ last.command = [name |-> "NoOp"] /\ last'.op = "tick") =>
            /\ ~panicked'
            /\ last'.command = command_from(decode(read_u16(memory, last.cpu.pc + 2)))]_vars

\* the 7001 after the unknown word has run, with a drawn frame, a pending
\* return address and a key held down
C11_Witness ==
    /\ last.op = "tick"
    /\ last.command = [name |-> "Add", register |-> 0, value |-> 1]
    /\ last.cpu.pc = CHIP8_START + 14
    /\ cpu.registers[0] = 6
    /\ stack.ptr = 1
    /\ display # DisplayNew
    /\ keyboard[1]
    /\ ~panicked

---------------------------------------------------------------------------
(* Arithmetic, shifts and immediates: programs that load Vx, Vy and VF and *)
(* execute one instruction on them, for every pair of registers.           *)

Registers == 0..15

AluValues == {0, 1, 128, 255}

AluFlags == {0, 1}

ShiftStyles == {"ShiftInPlace", "CopyThenShift"}

\* 8XY4, 8XY5, 8XY7
ArithmeticWords(x, y) == {W(8, x, y, n) : n \in {4, 5, 7}}

\* 8XY6, 8XYE
ShiftWords(x, y) == {W(8, x, y, 6), W(8, x, y, 14)}

\* 6XNN, 7XNN
ImmediateWords(x, nn) == {W(6, x, 0, 0) + nn, W(7, x, 0, 0) + nn}

\* 6Xaa 6Ybb 6Fff w 1208
AluRom(x, y, a, b, f, w) ==
    RomBytes(<<W(6, x, 0, 0) + a, W(6, y, 0, 0) + b, W(6, 15, 0, 0) + f, w,
               W(1, 2, 0, 8)>>, <<>>)

\* the state is that of the emulator e, before any call of the host
StartsAs(e) ==
    /\ configuration = e.configuration
    /\ cpu = e.cpu
    /\ memory = e.memory
    /\ stack = e.stack
    /\ display = e.display
    /\ keyboard = e.keyboard
    /\ delay_timer = e.delay_timer
    /\ sound_timer = e.sound_timer
    /\ rng = e.rng
    /\ panicked = e.panicked
    /\ last = [op |-> "new"]
    /\ hist = HistNew

\* registers next to Vx that an immediate instruction has to leave alone
ImmediateNeighbours == {0, 15}

\* Emulator::new().with_rom(rom) for the arithmetic and the immediate programs
InitAlu ==
    \E x \in Registers, a \in AluValues, b \in AluValues, f \in AluFlags :
        \/ \E y \in Registers : \E w \in ArithmeticWords(x, y) :
              StartsAs(with_rom(EmulatorNew, AluRom(x, y, a, b, f, w)))
        \/ \E y \in ImmediateNeighbours, w \in ImmediateWords(x, b) :
              StartsAs(with_rom(EmulatorNew, AluRom(x, y, a, b, f, w)))

NextAlu == Tick

SpecAlu == InitAlu /\ [][NextAlu]_vars

\* Emulator::new(), the shift style set by the host, with_rom(rom) for the
\* shift programs
InitShift ==
    \E x \in Registers, y \in Registers, a \in AluValues, b \in AluValues, f \in AluFlags,
       style \in ShiftStyles :
        \E w \in ShiftWords(x, y) :
            StartsAs(with_rom([EmulatorNew EXCEPT !.configuration.shift = style],
                              AluRom(x, y, a, b, f, w)))

NextShift == Tick

SpecShift == InitShift /\ [][NextShift]_vars

---------------------------------------------------------------------------
(* Arithmetic and shifts, stated on the operand values before the tick.    *)

\* the command this step's tick executed, whether or not the tick completed
Executes(names) == last'.op = "tick" /\ last'.command.name \in names

V(r) == cpu.registers[r]

\* the value a shift works on: Vx in place, Vy when it is copied first
ShiftOperand(c) ==
    IF configuration.shift = "CopyThenShift" THEN V(c.read) ELSE V(c.write)

\* the flag the instruction set documents for a command
DocumentedFlag(c) ==
    CASE c.name = "AddRegisters" -> IF V(c.write) + V(c.read) > 255 THEN 1 ELSE 0
      [] c.name = "Sub" -> IF V(c.write) >= V(c.read) THEN 1 ELSE 0
      [] c.name = "SubInverse" -> IF V(c.read) >= V(c.write) THEN 1 ELSE 0
      [] c.name = "ShiftRight" -> ShiftOperand(c) % 2
      [] c.name = "ShiftLeft" -> ShiftOperand(c) \div 128

\* C12: after 8XY4, 8XY5, 8XY7, 8XY6 and 8XYE, for every X and Y including
\* X = 0xF, VF holds the documented flag, computed from the operands before
\* the instruction.
C12_FlagAfterArithmetic ==
    [][Executes({"AddRegisters", "Sub", "SubInverse", "ShiftRight", "ShiftLeft"}) =>
        cpu'.registers[15] = DocumentedFlag(last'.command)]_vars

\* C13: 8XY4 never faults, sets Vx to (Vx + Vy) mod 256 and VF to 1 on a
\* carry and to 0 otherwise, also when VF was 1 before (for X = 0xF the flag
\* is what VF holds).
C13_AddRegistersCarries ==
    [][Executes({"AddRegisters"}) =>
        LET c == last'.command
        IN /\ ~panicked'
           /\ cpu'.registers[15] = IF V(c.write) + V(c.read) > 255 THEN 1 ELSE 0
           /\ c.write # 15 => cpu'.registers[c.write] = (V(c.write) + V(c.read)) % 256
           /\ \A r \in Registers \ {c.write, 15} : cpu'.registers[r] = V(r)]_vars

\* an 8XY4 without carry has cleared a VF that was 1
C13_Witness ==
    /\ last.op = "tick"
    /\ last.command.name = "AddRegisters"
    /\ last.command.write # 15
    /\ last.cpu.registers[15] = 1
    /\ last.cpu.registers[last.command.write] = 1
    /\ last.cpu.registers[last.command.read] = 128
    /\ cpu.registers[last.command.write] = 129
    /\ cpu.registers[15] = 0

\* C14: for X # 0xF, 8XY5 sets Vx to (Vx - Vy) mod 256 and VF to 1 iff
\* Vx >= Vy, 8XY7 sets Vx to (Vy - Vx) mod 256 and VF to 1 iff Vy >= Vx; VF
\* is written on the borrow path and on the no-borrow path.
C14_SubWritesFlagOnBothPaths ==
    [][(Executes({"Sub", "SubInverse"}) /\ last'.command.write # 15) =>
        LET c == last'.command
            a == IF c.name = "Sub" THEN V(c.write) ELSE V(c.read)
            b == IF c.name = "Sub" THEN V(c.read) ELSE V(c.write)
        IN /\ ~panicked'
           /\ cpu'.registers[c.write] = (a - b + 256) % 256
           /\ cpu'.registers[15] = IF a >= b THEN 1 ELSE 0]_vars

\* an 8XY5 with a borrow has cleared a VF that was 1
C14_Witness ==
    /\ last.op = "tick"
    /\ last.command.name = "Sub"
    /\ last.command.write \notin {15, last.command.read}
    /\ last.command.read # 15
    /\ last.cpu.registers[15] = 1
    /\ last.cpu.registers[last.command.write] = 1
    /\ last.cpu.registers[last.command.read] = 128
    /\ cpu.registers[last.command.write] = 129
    /\ cpu.registers[15] = 0

\* C15: 6XNN sets Vx to NN and 7XNN sets Vx to (Vx + NN) mod 256 without a
\* fault; both leave every other register (VF too when X # 0xF), I, memory
\* and the stack unchanged.
C15_LoadAndAddImmediate ==
    [][Executes({"Load", "Add"}) =>
        LET c == last'.command
        IN /\ ~panicked'
           /\ cpu'.registers[c.register] =
                 IF c.name = "Load" THEN c.value ELSE (V(c.register) + c.value) % 256
           /\ \A r \in Registers \ {c.register} : cpu'.registers[r] = V(r)
           /\ cpu'.i = cpu.i
           /\ memory' = memory
           /\ stack' = stack]_vars

\* a 7XNN has wrapped past 255 and left a VF of 1 alone
C15_Witness ==
    /\ last.op = "tick"
    /\ last.command = [name |-> "Add", register |-> 3, value |-> 128]
    /\ last.cpu.registers[3] = 255
    /\ last.cpu.registers[15] = 1
    /\ cpu.registers[3] = 127
    /\ cpu.registers[15] = 1
    /\ ~panicked

\* C16: in place, 8XY6 sets VF to bit 0 of Vx and Vx to Vx >> 1, and 8XYE
\* sets VF to bit 7 of Vx and Vx to (Vx << 1) mod 256, whatever Vy holds;
\* with CopyThenShift the result and the flag are those of the old Vy. Vy is
\* unchanged when Y # X and Y # 0xF.
C16_ShiftQuirk ==
    [][Executes({"ShiftRight", "ShiftLeft"}) =>
        LET c == last'.command
            operand == ShiftOperand(c)
        IN /\ ~panicked'
           /\ cpu'.registers[15] =
                 IF c.name = "ShiftRight" THEN operand % 2 ELSE operand \div 128
           /\ c.write # 15 =>
                 cpu'.registers[c.write] =
                    IF c.name = "ShiftRight" THEN operand \div 2 ELSE (operand * 2) % 256
           /\ c.read \notin {c.write, 15} => cpu'.registers[c.read] = V(c.read)]_vars

\* an 8XYE under CopyThenShift has shifted the old Vy = 128 into Vx, which
\* held 1, and set VF
C16_Witness ==
    /\ last.op = "tick"
    /\ last.command.name = "ShiftLeft"
    /\ configuration.shift = "CopyThenShift"
    /\ last.command.write \notin {15, last.command.read}
    /\ last.command.read # 15
    /\ last.cpu.registers[last.command.write] = 1
    /\ last.cpu.registers[last.command.read] = 128
    /\ last.cpu.registers[15] = 0
    /\ cpu.registers[last.command.write] = 0
    /\ cpu.registers[last.command.read] = 128
    /\ cpu.registers[15] = 1

---------------------------------------------------------------------------
(* Quirks: programs that run one quirk instruction in a loop while the     *)
(* host changes the selectors of the public configuration between ticks.   *)

MaxConfigures == 2

JumpStyles == {"OffsetFromV0", "OffsetVariable"}

DumpLoadStyles == {"AffectIRegister", "StaticIRegister"}

\* the host assigns one selector of emulator.configuration
Configure ==
    /\ ~panicked
    /\ hist.configures < MaxConfigures
    /\ \/ \E style \in ShiftStyles : configuration' = [configuration EXCEPT !.shift = style]
       \/ \E style \in JumpStyles : configuration' = [configuration EXCEPT !.jump = style]
       \/ \E style \in DumpLoadStyles :
             configuration' = [configuration EXCEPT !.r_register = style]
    /\ configuration' # configuration
    /\ last' = [op |-> "configure"]
    /\ hist' = [hist EXCEPT !.configures = @ + 1]
    /\ UNCHANGED <<cpu, memory, stack, display, keyboard, delay_timer, sound_timer, rng,
                   panicked>>

\* a ROM of len bytes given by the byte at each address
RomAt(len, byte(_)) == [k \in 1..len |-> byte(CHIP8_START + k - 1)]

\* the byte at address of a memory that holds the words of program at base and
\* zero elsewhere
WordsAt(base, program, address) ==
    LET k == address - base
    IN IF k < 0 \/ k >= 2 * Len(program) THEN 0
       ELSE IF k % 2 = 0 THEN program[k \div 2 + 1] \div 256
       ELSE program[(k - 1) \div 2 + 1] % 256

\* 6004 6X08 BNNN with X the high nibble of NNN, and 1200 at NNN + 4 and NNN + 8
JumpOffsetRom(nnn) ==
    LET byte(address) ==
            WordsAt(CHIP8_START,
                    <<W(6, 0, 0, 4), W(6, nnn \div 256, 0, 8), W(11, 0, 0, 0) + nnn>>, address)
            + WordsAt(nnn + 4, <<W(1, 2, 0, 0), 0, W(1, 2, 0, 0)>>, address)
    IN RomAt(nnn + 10 - CHIP8_START, byte)

JumpOffsetTargets == {528, 784}

\* 6181 6203 w 1200
ShiftLoopRom(w) == RomBytes(<<W(6, 1, 8, 1), W(6, 2, 0, 3), w, W(1, 2, 0, 0)>>, <<>>)

\* 6001 6102 ... 6F10 A300 FX55 1200
DumpRom(x) ==
    RomBytes([k \in 1..16 |-> W(6, k - 1, 0, 0) + k]
             \o <<W(10, 3, 0, 0), W(15, x, 5, 5), W(1, 2, 0, 0)>>, <<>>)

\* 6E55 6F66 A210 FX65 1200, and the bytes 17..32 at 0x210
LoadRom(x) ==
    RomBytes(<<W(6, 14, 5, 5), W(6, 15, 6, 6), W(10, 2, 1, 0), W(15, x, 6, 5),
               W(1, 2, 0, 0)>>,
             <<0, 0, 0, 0, 0, 0>> \o [k \in 1..16 |-> 16 + k])

QuirkRoms ==
    {JumpOffsetRom(nnn) : nnn \in JumpOffsetTargets}
    \cup {ShiftLoopRom(w) : w \in ShiftWords(1, 2)}
    \cup {DumpRom(x) : x \in Registers}
    \cup {LoadRom(x) : x \in Registers}

InitQuirk == InitWith(QuirkRoms)

NextQuirk == Tick \/ Configure

SpecQuirk == InitQuirk /\ [][NextQuirk]_vars

---------------------------------------------------------------------------
(* The quirk instructions, stated on the state before the tick and the     *)
(* configuration at the time of the tick.                                  *)

Addresses == 0..(MEMORY_SIZE - 1)

\* everything of the machine but PC and the timers is as before the step
OnlyPcChanges ==
    /\ cpu'.registers = cpu.registers
    /\ cpu'.i = cpu.i
    /\ memory' = memory
    /\ stack' = stack
    /\ display' = display
    /\ keyboard' = keyboard

\* BNNN as the jump style at the time of the tick defines it
JumpOffsetEffect(c) ==
    /\ ~panicked'
    /\ cpu'.pc = c.address + V(IF configuration.jump = "OffsetFromV0" THEN 0
                                ELSE c.address \div 256)
    /\ OnlyPcChanges

\* 8XY6 and 8XYE as the shift style at the time of the tick defines them
ShiftEffect(c) ==
    /\ ~panicked'
    /\ cpu'.registers[15] =
          IF c.name = "ShiftRight" THEN ShiftOperand(c) % 2 ELSE ShiftOperand(c) \div 128
    /\ c.write # 15 =>
          cpu'.registers[c.write] =
             IF c.name = "ShiftRight" THEN ShiftOperand(c) \div 2
             ELSE (ShiftOperand(c) * 2) % 256

C18_StaticDumpLoad ==
    [][(Executes({"DumpAll", "LoadAll"}) /\ configuration.r_register = "StaticIRegister"
            /\ ~panicked') =>
        LET c == last'.command
            x == c.until_register
        IN /\ cpu'.i = cpu.i
           /\ c.name = "DumpAll" =>
                 /\ \A i \in 0..x : read_u8(memory', cpu.i + i) = V(i)
                 /\ \A a \in Addresses \ (cpu.i..(cpu.i + x)) :
                       read_u8(memory', a) = read_u8(memory, a)
                 /\ cpu'.registers = cpu.registers
           /\ c.name = "LoadAll" =>
                 /\ \A i \in 0..x : cpu'.registers[i] = read_u8(memory, cpu.i + i)
                 /\ \A r \in (x + 1)..15 : cpu'.registers[r] = V(r)
                 /\ memory' = memory]_vars

\* FF55 has stored V0..VF at 0x300..0x30F and left I at 0x300
C18_Witness ==
    /\ last.op = "tick"
    /\ last.command = [name |-> "DumpAll", until_register |-> 15]
    /\ configuration.r_register = "StaticIRegister"
    /\ cpu.i = 768
    /\ \A i \in 0..15 : read_u8(memory, 768 + i) = i + 1
    /\ read_u8(memory, 784) = 0
    /\ ~panicked

\* C19: with the I-mutating style FX55 and FX65 step I by 1 per register: the
\* X + 1 registers V0..VX go to, or come from, X + 1 consecutive addresses
\* (from I or from I + 1 on).
C19_MutatingDumpLoadStepsByOne ==
    [][(Executes({"DumpAll", "LoadAll"}) /\ configuration.r_register = "AffectIRegister") =>
        LET c == last'.command
            x == c.until_register
        IN /\ ~panicked'
           /\ cpu'.i - cpu.i \in {x, x + 1}
           /\ \E base \in {cpu.i, cpu.i + 1} :
                 \A i \in 0..x :
                    IF c.name = "DumpAll" THEN read_u8(memory', base + i) = V(i)
                    ELSE cpu'.registers[i] = read_u8(memory, base + i)]_vars

\* C20: the configuration is consulted when a tick executes: 8XY6 / 8XYE,
\* BNNN and FX55 / FX65 behave as the selectors at the time of the tick say,
\* whatever they were at earlier ticks, and a change of the configuration
\* changes nothing else of the machine.
C20_ConfigurationConsultedAtExecution ==
    [][/\ last'.op = "configure" =>
            /\ OnlyPcChanges
            /\ cpu' = cpu
            /\ delay_timer' = delay_timer
            /\ sound_timer' = sound_timer
            /\ panicked' = panicked
       /\ Executes({"ShiftRight", "ShiftLeft"}) => ShiftEffect(last'.command)
       /\ Executes({"JumpOffset"}) => JumpOffsetEffect(last'.command)
       /\ Executes({"DumpAll", "LoadAll"}) =>
            IF configuration.r_register = "StaticIRegister" THEN cpu'.i = cpu.i
            ELSE last'.command.until_register > 0 => cpu'.i > cpu.i
       /\ last'.op = "tick" => configuration' = configuration]_vars

\* the same 8126 has run in place and, after the host changed the selector,
\* as copy-then-shift
C20_Witness ==
    /\ last.op = "tick"
    /\ last.command = [name |-> "ShiftRight", write |-> 1, read |-> 2]
    /\ configuration.shift = "CopyThenShift"
    /\ hist.configures > 0
    /\ <<"ShiftRight", "ShiftInPlace">> \in hist.executed
    /\ <<"ShiftRight", "CopyThenShift">> \in hist.executed
    /\ cpu.registers[1] = 1
    /\ cpu.registers[15] = 1

---------------------------------------------------------------------------
(* The timers, stated on the clock: delay_timer and sound_timer hold the   *)
(* milliseconds since each timer's last_tick.                              *)

\* the 60 Hz steps that fit into ms milliseconds
StepsIn(ms) == (ms * TICKS_PER_SECOND) \div 1000

\* the register r counted down by the steps of ms milliseconds, not below 0
CountedDown(r, ms) == IF StepsIn(ms) > r THEN 0 ELSE r - StepsIn(ms)

\* C23: on a tick at which s = floor((now - last) * 60 / 1000) steps have
\* elapsed for a timer whose register r is above 0, the register becomes r - s
\* when s <= r and 0 when s > r, for every s, 256 and more included.
C23_TimerClampsAtZero ==
    [][TickStep =>
        /\ (cpu.delay > 0 /\ last'.command.name # "SetDelay") =>
              cpu'.delay = CountedDown(cpu.delay, delay_timer)
        /\ (cpu.sound > 0 /\ last'.command.name # "SetSound") =>
              cpu'.sound = CountedDown(cpu.sound, sound_timer)]_vars

\* C24: FX15 sets delay to Vx and FX18 sets sound to Vx and each moves its
\* timer's baseline to that tick: right after the tick the register is Vx, and
\* the next tick counts the register down by the time since the FX15 / FX18
\* tick and by nothing else.
C24_SetTimerResetsBaseline ==
    [][TickStep =>
        /\ last'.command.name = "SetDelay" =>
              /\ cpu'.delay = V(last'.command.register)
              /\ delay_timer' = 0
        /\ last'.command.name = "SetSound" =>
              /\ cpu'.sound = V(last'.command.register)
              /\ sound_timer' = 0
        /\ (hist.delay_set >= 0 /\ hist.delay_ticks = 0
                /\ last'.command.name # "SetDelay") =>
              cpu'.delay = CountedDown(hist.delay_set, hist.delay_since)
        /\ (hist.sound_set >= 0 /\ hist.sound_ticks = 0
                /\ last'.command.name # "SetSound") =>
              cpu'.sound = CountedDown(hist.sound_set, hist.sound_since)]_vars

\* C25: every tick sets the last-tick timestamp of the delay timer and of the
\* sound timer to the time of the tick, whether or not the register is zero.
C25_EveryTickStampsBothTimers ==
    [][TickStep => (delay_timer' = 0 /\ sound_timer' = 0)]_vars

---------------------------------------------------------------------------
(* Construction and reload: the host constructs an emulator, sets its      *)
(* configuration, then ticks, presses and releases keys and loads ROMs.    *)

MaxLoads == 2

\* the longest ROM that fits behind 0x200
MaxRomLen == MEMORY_SIZE - CHIP8_START

\* 6012 A050 F055 F015 F018 2210, and at 0x210 D005 1212: overwrite the first
\* font byte, start both timers, call, draw and stay
FontWriterRom ==
    RomBytes(<<W(6, 0, 1, 2), W(10, 0, 5, 0), W(15, 0, 5, 5), W(15, 0, 1, 5),
               W(15, 0, 1, 8), W(2, 2, 1, 0), 0, 0, W(13, 0, 0, 5), W(1, 2, 1, 2)>>, <<>>)

\* 6701 1202, zeros up to the last byte of the memory, which is 0xAA
FullRom ==
    [k \in 1..MaxRomLen |->
        CASE k = 1 -> 103 [] k = 2 -> 1 [] k = 3 -> 18 [] k = 4 -> 2
          [] k = MaxRomLen -> 170 [] OTHER -> 0]

\* the one byte 0x12: with the zero behind it the word 1200, a jump to itself
OneByteRom == <<18>>

LoadRoms == {OneByteRom, FontWriterRom, FullRom}

\* the configurations the host can set
Configurations ==
    [shift : ShiftStyles, jump : JumpStyles, r_register : DumpLoadStyles]

\* the host calls load_rom
Reload ==
    /\ ~panicked
    /\ hist.loads < MaxLoads
    /\ \E rom \in LoadRoms :
          /\ SetEmu(load_rom(Emu, rom))
          /\ last' = [op |-> "load_rom", rom |-> rom]
    /\ hist' = [HistNew EXCEPT !.loads = hist.loads + 1,
                               !.key_events = hist.key_events]

\* Emulator::new(), the configuration set by the host, with_rom(rom)
InitLoad ==
    \E c \in Configurations, rom \in LoadRoms :
        StartsAs(with_rom([EmulatorNew EXCEPT !.configuration = c], rom))

NextLoad == Tick \/ PressKey \/ ReleaseKey \/ Reload

SpecLoad == InitLoad /\ [][NextLoad]_vars

\* Emulator::new() and nothing else
InitNew == StartsAs(EmulatorNew)

NextNew == Tick \/ PressKey \/ ReleaseKey

SpecNew == InitNew /\ [][NextNew]_vars

\* the standard sprites of the hex digits, five rows each
StandardFont ==
    [d \in 0..15 |->
        CASE d = 0 -> <<240, 144, 144, 144, 240>>
          [] d = 1 -> <<32, 96, 32, 32, 112>>
          [] d = 2 -> <<240, 16, 240, 128, 240>>
          [] d = 3 -> <<240, 16, 240, 16, 240>>
          [] d = 4 -> <<144, 144, 240, 16, 16>>
          [] d = 5 -> <<240, 128, 240, 16, 240>>
          [] d = 6 -> <<240, 128, 240, 144, 240>>
          [] d = 7 -> <<240, 16, 32, 64, 64>>
          [] d = 8 -> <<240, 144, 240, 144, 240>>
          [] d = 9 -> <<240, 144, 240, 16, 240>>
          [] d = 10 -> <<240, 144, 240, 144, 144>>
          [] d = 11 -> <<224, 144, 224, 144, 224>>
          [] d = 12 -> <<240, 128, 128, 128, 240>>
          [] d = 13 -> <<224, 144, 144, 144, 224>>
          [] d = 14 -> <<240, 128, 240, 128, 240>>
          [] d = 15 -> <<240, 128, 240, 128, 128>>]

\* the sprite of every hex digit d is stored at 0x050 + 5 * d in buffer
HoldsFont(buffer) ==
    \A d \in 0..15 : \A row \in 1..5 :
        read_u8(buffer, 80 + 5 * d + row - 1) = StandardFont[d][row]

\* PC is 0x200 and V0..VF, I, delay and sound are 0 in the registers c
IsReset(c) ==
    /\ c.pc = 512
    /\ \A r \in Registers : c.registers[r] = 0
    /\ c.i = 0
    /\ c.delay = 0
    /\ c.sound = 0

\* C21: after load_rom(rom) in any reachable state, with len(rom) <= 3584, PC
\* is 0x200, V0..VF, I, delay and sound are 0, the stack is empty, every pixel
\* is off, memory from 0x200 on holds rom followed by zeros, the font table
\* holds the standard sprites and the configuration is as before.
C21_LoadRomResets ==
    [][(last'.op = "load_rom" /\ Len(last'.rom) <= 3584) =>
        /\ ~panicked'
        /\ IsReset(cpu')
        /\ stack'.ptr = 0
        /\ \A b \in DOMAIN display' : display'[b] = 0
        /\ LET rom == last'.rom
               loaded == memory'
           IN \A a \in CHIP8_START..(MEMORY_SIZE - 1) :
                 read_u8(loaded, a) =
                    IF a - CHIP8_START < Len(rom) THEN rom[a - CHIP8_START + 1] ELSE 0
        /\ HoldsFont(memory')
        /\ configuration' = configuration]_vars

\* C22: a newly constructed emulator has PC 0x200, V0..VF, I, delay and sound
\* 0, an empty stack, all keys released, all pixels off, memory zero outside
\* the font table, the sprite of digit d at 0x050 + 5 * d and the default
\* configuration ShiftInPlace / OffsetVariable / static I.
C22_NewEmulator ==
    last.op = "new" =>
        /\ ~panicked
        /\ IsReset(cpu)
        /\ stack.ptr = 0
        /\ \A k \in 0..15 : ~keyboard[k]
        /\ \A b \in DOMAIN display : display[b] = 0
        /\ \A a \in Addresses \ (80..159) : read_u8(memory, a) = 0
        /\ HoldsFont(memory)
        /\ configuration.shift = "ShiftInPlace"
        /\ configuration.jump = "OffsetVariable"
        /\ configuration.r_register = "StaticIRegister"

\* the emulator right after new(): the last row of the sprite of F is in place
C22_Witness ==
    /\ last.op = "new"
    /\ cpu.pc = 512
    /\ read_u8(memory, 159) = 128
    /\ read_u8(memory, 160) = 0
    /\ hist.loads = 0

---------------------------------------------------------------------------
(* Conditional skips: programs that load Vx and Vy and execute one skip,   *)
(* while the host presses and releases keys.                               *)

SkipRegisters == {0, 5, 15}

\* 0x10 names no key, 0x12 is the value of the skip-equal scenario
SkipValues == {0, 1, 16, 18}

\* 3XNN, 4XNN, 5XY0, 9XY0, EX9E, EXA1
SkipWords(x, y, nn) ==
    {W(3, x, 0, 0) + nn, W(4, x, 0, 0) + nn, W(5, x, y, 0), W(9, x, y, 0),
     W(14, x, 9, 14), W(14, x, 10, 1)}

\* 6Xaa 6Ybb w 1206 1208: the skip at 0x204 ends in one of two loops
SkipRom(x, y, a, b, w) ==
    RomBytes(<<W(6, x, 0, 0) + a, W(6, y, 0, 0) + b, w, W(1, 2, 0, 6), W(1, 2, 0, 8)>>,
             <<>>)

InitSkip ==
    \E x \in SkipRegisters, y \in SkipRegisters, a \in SkipValues, b \in SkipValues :
        \E w \in SkipWords(x, y, b) :
            StartsAs(with_rom(EmulatorNew, SkipRom(x, y, a, b, w)))

NextSkip == Tick \/ PressKey \/ ReleaseKey

SpecSkip == InitSkip /\ [][NextSkip]_vars

SkipNames ==
    {"SkipIfValueEqual", "SkipIfValueNotEqual", "SkipIfRegisterEqual",
     "SkipIfRegisterNotEqual", "SkipIfKeyPressed", "SkipIfKeyNotPressed"}

---------------------------------------------------------------------------
(* Transfers, BCD, font address and jump: programs that load Vy, start the *)
(* delay timer from it, load Vx and I and execute one instruction.         *)

Bytes == 0..255

MoveRegisters == {0, 5, 15}

MoveValues == {0, 18, 255}

\* addresses for I: the start of the memory, 0x300 and the last address
MoveAddresses == {0, 768, 4095}

\* addresses for FX33: 0x300, the last three bytes, and one byte too far
BcdAddresses == {768, 4093, 4094}

\* targets of 1NNN: the start of the program, the jump itself, the loop behind
\* it, an odd address, 0x300 and the last two addresses of the memory
JumpTargets == {512, 520, 522, 523, 768, 4094, 4095}

\* 6Ybb FY15 6Xaa Annn w 120A: the instruction w runs at 0x208
MoveRom(x, y, a, b, nnn, w) ==
    RomBytes(<<W(6, y, 0, 0) + b, W(15, y, 1, 5), W(6, x, 0, 0) + a, W(10, 0, 0, 0) + nnn,
               w, W(1, 2, 0, 10)>>, <<>>)

\* Emulator::new().with_rom(rom) for the programs of FX33, FX29, 1NNN, 8XY0,
\* ANNN, FX1E and FX07
InitMove ==
    \/ \E x \in {0, 15}, a \in Bytes, nnn \in BcdAddresses :
          StartsAs(with_rom(EmulatorNew, MoveRom(x, 1, a, 7, nnn, W(15, x, 3, 3))))
    \/ \E x \in {0, 15}, a \in Bytes :
          StartsAs(with_rom(EmulatorNew, MoveRom(x, 1, a, 7, 768, W(15, x, 2, 9))))
    \/ \E nnn \in JumpTargets :
          StartsAs(with_rom(EmulatorNew, MoveRom(0, 15, 18, 7, 768, W(1, 0, 0, 0) + nnn)))
    \/ \E x \in MoveRegisters, y \in MoveRegisters, a \in MoveValues, b \in MoveValues :
          \E w \in {W(8, x, y, 0), W(15, x, 0, 7)} :
              StartsAs(with_rom(EmulatorNew, MoveRom(x, y, a, b, 768, w)))
    \/ \E x \in MoveRegisters, a \in MoveValues, nnn \in MoveAddresses :
          \E w \in {W(15, x, 1, 14)} \cup {W(10, 0, 0, 0) + t : t \in MoveAddresses} :
              StartsAs(with_rom(EmulatorNew, MoveRom(x, 15, a, 1, nnn, w)))

NextMove == Tick

SpecMove == InitMove /\ [][NextMove]_vars

\* memory, stack, frame buffer, keypad and the timer registers are as before
RestUnchanged ==
    /\ memory' = memory
    /\ stack' = stack
    /\ display' = display
    /\ keyboard' = keyboard
    /\ cpu'.delay = cpu.delay
    /\ cpu'.sound = cpu.sound

\* C27: FX33 with Vx = b, for every b in 0..255, leaves the hundreds, tens and
\* units digits of b in memory[I], memory[I + 1], memory[I + 2]: each byte is
\* in 0..9 and memory[I] * 100 + memory[I + 1] * 10 + memory[I + 2] = b; no
\* other memory byte, no register and not I changes (I + 2 inside the memory).
C27_BcdDigits ==
    [][(Executes({"LoadBcd"}) /\ cpu.i + 2 < MEMORY_SIZE) =>
        LET b == V(last'.command.read_register)
            digit(k) == read_u8(memory', cpu.i + k)
        IN /\ ~panicked'
           /\ \A k \in 0..2 : digit(k) \in 0..9
           /\ digit(0) * 100 + digit(1) * 10 + digit(2) = b
           /\ \A a \in Addresses \ (cpu.i..(cpu.i + 2)) :
                 read_u8(memory', a) = read_u8(memory, a)
           /\ cpu'.registers = cpu.registers
           /\ cpu'.i = cpu.i]_vars

\* F033 with V0 = 234 and I = 0x300 has left 2, 3, 4 at 0x300
C27_Witness ==
    /\ last.op = "tick"
    /\ last.command = [name |-> "LoadBcd", read_register |-> 0]
    /\ cpu.registers[0] = 234
    /\ cpu.i = 768
    /\ read_u8(memory, 768) = 2
    /\ read_u8(memory, 769) = 3
    /\ read_u8(memory, 770) = 4
    /\ ~panicked

\* C28: FX29 sets I to 0x050 + 5 * (Vx & 0xF) for every Vx in 0..255, the
\* start of one of the 16 font sprites inside 0x050..0x09F.
C28_FontAddressOfLowNibble ==
    [][Executes({"LoadSpriteDigitIntoI"}) =>
        /\ ~panicked'
        /\ cpu'.i = 80 + 5 * (V(last'.command.read_register) % 16)
        /\ cpu'.i \in {80 + 5 * d : d \in 0..15}]_vars

\* C29: 1NNN sets PC to NNN and changes no V register, I, timer register,
\* stack entry, memory byte or pixel.
C29_JumpSetsOnlyPc ==
    [][Executes({"Jump"}) =>
        /\ ~panicked'
        /\ cpu'.pc = last'.command.address
        /\ cpu'.registers = cpu.registers
        /\ cpu'.i = cpu.i
        /\ RestUnchanged]_vars

\* 1300 has run with V0, VF, I and the delay register loaded
C29_Witness ==
    /\ last.op = "tick"
    /\ last.command = [name |-> "Jump", address |-> 768]
    /\ last.cpu.pc = 520
    /\ cpu.pc = 768
    /\ cpu.registers[0] = 18
    /\ cpu.registers[15] = 7
    /\ cpu.delay = 7
    /\ cpu.i = 768

\* C30: 8XY0 sets Vx to Vy, ANNN sets I to NNN, FX1E sets I to I + Vx and
\* FX07 sets Vx to the delay register; each changes its destination only
\* (PC moves past the instruction), so ANNN and FX1E change no V register.
C30_RegisterTransfers ==
    [][Executes({"CopyRegister", "LoadI", "AddI", "LoadDelay"}) =>
        LET c == last'.command
        IN /\ ~panicked'
           /\ cpu'.pc = cpu.pc + 2
           /\ RestUnchanged
           /\ c.name = "CopyRegister" =>
                 /\ cpu'.registers = [cpu.registers EXCEPT ![c.write] = V(c.read)]
                 /\ cpu'.i = cpu.i
           /\ c.name = "LoadI" =>
                 /\ cpu'.i = c.value
                 /\ cpu'.registers = cpu.registers
           /\ c.name = "AddI" =>
                 /\ cpu'.i = cpu.i + V(c.read)
                 /\ cpu'.registers = cpu.registers
           /\ c.name = "LoadDelay" =>
                 /\ cpu'.registers = [cpu.registers EXCEPT ![c.register] = cpu.delay]
                 /\ cpu'.i = cpu.i]_vars

\* FF1E with I = 0xFFF and VF = 0xFF has left I = 0x10FE and VF = 0xFF
C30_Witness ==
    /\ last.op = "tick"
    /\ last.command = [name |-> "AddI", read |-> 15]
    /\ last.cpu.i = 4095
    /\ cpu.i = 4350
    /\ cpu.registers[15] = 255

---------------------------------------------------------------------------
(* The keypad: the host presses and releases any of the 16 keys and loads  *)
(* ROMs while a program skips on a key and waits for one.                  *)

AllKeys == 0..15

\* the host calls press_key with any key of the keypad
PressAnyKey ==
    /\ ~panicked
    /\ hist.key_events < MaxKeyEvents
    /\ \E key \in AllKeys :
          /\ SetEmu(press_key(Emu, key))
          /\ last' = [op |-> "press_key", key |-> key]
    /\ hist' = [hist EXCEPT !.key_events = @ + 1]

\* the host calls release_key with any key of the keypad
ReleaseAnyKey ==
    /\ ~panicked
    /\ hist.key_events < MaxKeyEvents
    /\ \E key \in AllKeys :
          /\ SetEmu(release_key(Emu, key))
          /\ last' = [op |-> "release_key", key |-> key]
    /\ hist' = [hist EXCEPT !.key_events = @ + 1]

\* 6001 E09E E0A1 F10A 1202: skip on key 1 pressed, skip on key 1 not
\* pressed, wait for a key, again
KeypadRom ==
    RomBytes(<<W(6, 0, 0, 1), W(14, 0, 9, 14), W(14, 0, 10, 1), W(15, 1, 0, 10),
               W(1, 2, 0, 2)>>, <<>>)

KeypadRoms == {KeypadRom, OneByteRom}

\* the host calls load_rom with one of the keypad programs
ReloadKeypad ==
    /\ ~panicked
    /\ hist.loads < MaxLoads
    /\ \E rom \in KeypadRoms :
          /\ SetEmu(load_rom(Emu, rom))
          /\ last' = [op |-> "load_rom", rom |-> rom]
    /\ hist' = [HistNew EXCEPT !.loads = hist.loads + 1,
                               !.key_events = hist.key_events]

InitKeys == InitWith(KeypadRoms)

NextKeys == Tick \/ PressAnyKey \/ ReleaseAnyKey \/ ReloadKeypad

SpecKeys == InitKeys /\ [][NextKeys]_vars

\* everything of the machine but the keypad is as before the step
OnlyKeypadChanges ==
    /\ cpu' = cpu
    /\ memory' = memory
    /\ stack' = stack
    /\ display' = display
    /\ configuration' = configuration
    /\ delay_timer' = delay_timer
    /\ sound_timer' = sound_timer
    /\ rng' = rng

\* C31: for every key k of 0..15, after press_key(k) key k reads as pressed
\* and after release_key(k) as released; neither changes the state of another
\* key (nor anything else), and pressing a pressed key or releasing a released
\* key changes nothing.
C31_KeypadPressRelease ==
    [][last'.op \in {"press_key", "release_key"} =>
        LET k == last'.key
            down == last'.op = "press_key"
        IN /\ ~panicked'
           /\ keyboard'[k] = down
           /\ \A j \in AllKeys \ {k} : keyboard'[j] = keyboard[j]
           /\ keyboard[k] = down => keyboard' = keyboard
           /\ OnlyKeypadChanges]_vars

\* key 15 was pressed a second time and key 0 never
C31_Witness ==
    /\ last = [op |-> "press_key", key |-> 15]
    /\ hist.key_events = 2
    /\ keyboard[15]
    /\ \A j \in 0..14 : ~keyboard[j]

\* C35: only the host writes the keypad: no tick, whatever it executes (FX0A,
\* EX9E and EXA1 included), and no load_rom changes the state of a key.
C35_KeypadWrittenByHostOnly ==
    [][last'.op \in {"tick", "load_rom"} => keyboard' = keyboard]_vars

\* after a load_rom, FX0A has read key 15, which is still pressed
C35_Witness ==
    /\ last.op = "tick"
    /\ last.command = [name |-> "WaitKeyPress", register |-> 1]
    /\ hist.loads > 0
    /\ cpu.registers[1] = 15
    /\ keyboard[15]
    /\ ~panicked

---------------------------------------------------------------------------
(* Faults of the stack and of the key skips.                               *)

\* C33: stack overflow and underflow are fatal: a 2NNN on a full stack (the
\* 17th nested call) and a 00EE on an empty stack abort the tick; no return
\* address is overwritten and PC is not loaded from a stack slot.
C33_StackFaultsAreFatal ==
    [][(\/ Executes({"Call"}) /\ stack.ptr = STACK_SIZE
        \/ Executes({"ReturnFromSubroutine"}) /\ stack.ptr = 0) =>
        /\ panicked'
        /\ stack'.buffer = stack.buffer
        /\ cpu'.pc = cpu.pc + 2]_vars

\* the 17th nested 2200 has aborted on the 16 return addresses below it
C33_Witness ==
    /\ panicked
    /\ last.op = "tick"
    /\ last.command = [name |-> "Call", address |-> 512]
    /\ stack.ptr = STACK_SIZE
    /\ \A s \in 0..(STACK_SIZE - 1) : stack.buffer[s] = 514

\* C34: the key skips cannot fail: for every value of Vx in 0..255 a tick
\* executing EX9E or EXA1 completes and ends with PC 2 or 4 past the
\* instruction.
C34_KeySkipsCannotFail ==
    [][Executes({"SkipIfKeyPressed", "SkipIfKeyNotPressed"}) =>
        /\ ~panicked'
        /\ cpu'.pc \in {cpu.pc + 2, cpu.pc + 4}]_vars

---------------------------------------------------------------------------
(* A program that runs every kind of instruction once, under every         *)
(* configuration, with the host pressing keys and reloading.               *)

\* the values the tour loads into V0 and VF: a key, a column, a font digit
\* and the offset of its BNNN
TourOffsets == {0, 1}

\* 00E0 and 00EE of the subroutine sit at 0x24C; BFFC lands on 0xFFC + a
TourRom(a) ==
    RomBytes(<<W(0, 0, 14, 0), W(6, 0, 0, 0) + a, W(6, 10, 0, 2), W(6, 11, 0, 1),
               W(3, 10, 0, 2), 0, W(4, 10, 0, 2), W(5, 10, 11, 0),
               W(9, 10, 11, 0), 0, W(7, 10, 0, 1), W(8, 12, 10, 0),
               W(8, 12, 11, 1), W(8, 12, 11, 2), W(8, 12, 11, 3), W(8, 12, 11, 4),
               W(8, 12, 11, 5), W(8, 12, 11, 6), W(8, 12, 11, 7), W(8, 12, 11, 14),
               W(12, 1, 0, 15), W(15, 0, 2, 9), W(13, 0, 1, 5), W(14, 0, 9, 14),
               W(14, 0, 10, 1), W(15, 2, 0, 7), W(15, 11, 1, 5), W(15, 11, 1, 8),
               W(15, 11, 1, 14), W(10, 3, 0, 0), W(15, 10, 3, 3), W(15, 2, 5, 5),
               W(15, 2, 6, 5), W(15, 3, 0, 10), W(2, 2, 4, 12), W(1, 2, 4, 8),
               W(6, 15, 0, 0) + a, W(11, 15, 15, 12), W(0, 0, 14, 0), W(0, 0, 14, 14)>>,
             <<>>)

\* a jump and a call to an odd address near the end of memory
OddJumpRom == RomBytes(<<W(1, 15, 15, 13)>>, <<>>)

OddCallRom == RomBytes(<<W(2, 15, 15, 13)>>, <<>>)

TourRoms == {TourRom(a) : a \in TourOffsets}

FlowRoms == {OddJumpRom, OddCallRom} \cup CallRoms

ReloadRoms == {TourRom(0), RecursionRom}

\* the host calls load_rom in the middle of the tour
ReloadTour ==
    /\ ~panicked
    /\ hist.loads < MaxLoads
    /\ \E rom \in ReloadRoms :
          /\ SetEmu(load_rom(Emu, rom))
          /\ last' = [op |-> "load_rom", rom |-> rom]
    /\ hist' = [HistNew EXCEPT !.loads = hist.loads + 1,
                               !.key_events = hist.key_events]

\* the tour under every configuration, the jumps and calls under the default
InitTour ==
    \/ \E c \in Configurations, rom \in TourRoms :
          StartsAs(with_rom([EmulatorNew EXCEPT !.configuration = c], rom))
    \/ \E rom \in FlowRoms : StartsAs(with_rom(EmulatorNew, rom))

NextTour == Tick \/ PressKey \/ ReloadTour

SpecTour == InitTour /\ [][NextTour]_vars

Even(n) == n % 2 = 0

\* the address a 1NNN, 2NNN or BNNN sends PC to
FlowTarget(c) ==
    IF c.name = "JumpOffset"
    THEN c.address + V(IF configuration.jump = "OffsetFromV0" THEN 0
                       ELSE c.address \div 256)
    ELSE c.address

\* C36: PC stays even: it is 0x200 after new() and after load_rom, and a tick
\* that starts on an even PC ends on an even PC unless it executes a 1NNN or
\* 2NNN with an odd target or a BNNN with an odd NNN + offset.
C36_PcStaysEven ==
    [][/\ last'.op = "load_rom" => cpu'.pc = CHIP8_START
       /\ (/\ last'.op = "tick"
           /\ Even(cpu.pc)
           /\ last'.command.name \in {"Jump", "Call", "JumpOffset"} =>
                 Even(FlowTarget(last'.command))) => Even(cpu'.pc)]_vars

\* the tour has run to BFFC with an even sum through a taken skip, a WaitKey,
\* a call and its return, and PC is on 0xFFC
C36_Witness ==
    /\ last.op = "tick"
    /\ last.command.name = "JumpOffset"
    /\ cpu.pc = 4092
    /\ cpu.registers[3] = 1
    /\ ~panicked

\* C39: the running program writes memory only through FX33 and FX55: a tick
\* executing any other instruction leaves all 4096 bytes unchanged (memory
\* holds the non-zero bytes, so equal memories are equal byte by byte).
C39_MemoryWrittenByBcdAndDumpOnly ==
    [][last'.op = "tick" /\ last'.command.name \notin {"LoadBcd", "DumpAll"} =>
          memory' = memory]_vars

\* an FX65 has loaded the registers back from the bytes FX33 and FX55 wrote
C39_Witness ==
    /\ last.op = "tick"
    /\ last.command = [name |-> "LoadAll", until_register |-> 2]
    /\ read_u8(memory, 768) = 1
    /\ read_u8(memory, 770) = 0
    /\ ~panicked

\* C40: while no tick has aborted, the stack depth is the number of executed
\* 2NNN minus the number of executed 00EE since new() or the last load_rom
\* and lies in 0..16; a tick executing any other instruction leaves the depth
\* and every stack entry unchanged.
C40_StackDepthCountsCalls ==
    [][/\ ~panicked' => /\ stack'.ptr = Len(hist'.calls)
                        /\ stack'.ptr \in 0..STACK_SIZE
       /\ last'.op = "tick"
          /\ last'.command.name \notin {"Call", "ReturnFromSubroutine"} =>
             stack' = stack]_vars

\* the 00E0 inside the tour's subroutine has run one call deep, after a reload
C40_Witness ==
    /\ last.op = "tick"
    /\ last.command.name = "ClearScreen"
    /\ stack.ptr = 1
    /\ stack.buffer[0] = 582
    /\ hist.loads > 0
    /\ ~panicked

---------------------------------------------------------------------------
(* The frame-buffer primitive, applied to one pixel of a drawn screen.     *)

MaxFlips == 2

\* 00E0 and a jump to itself
ClearRom == RomBytes(<<W(0, 0, 14, 0), W(1, 2, 0, 2)>>, <<>>)

\* frame buffers left by earlier draws: blank, full, and a checkerboard
DrawnScreens ==
    {DisplayNew,
     [b \in 0..(DISPLAY_BYTES - 1) |-> 255],
     [b \in 0..(DISPLAY_BYTES - 1) |-> IF (b \div 8) % 2 = 0 THEN 170 ELSE 85]}

\* DisplayBuffer::flip_pixel is called on a pixel of the screen; the calls of
\* one behaviour are made on the same pixel
FlipPixel ==
    /\ ~panicked
    /\ hist.flips < MaxFlips
    /\ \E x \in ScreenColumns, y \in ScreenRows :
          /\ hist.flips > 0 => hist.pixel = <<x, y>>
          /\ LET flipped == flip_pixel(display, x, y)
             IN /\ display' = flipped.buffer
                /\ panicked' = flipped.panicked
                /\ last' = [op |-> "flip", x |-> x, y |-> y,
                            is_turned_off |-> flipped.is_turned_off,
                            before |-> display]
                /\ hist' = [hist EXCEPT !.flips = @ + 1, !.pixel = <<x, y>>]
    /\ UNCHANGED <<configuration, cpu, memory, stack, keyboard, delay_timer,
                   sound_timer, rng>>

InitPixel ==
    \E screen \in DrawnScreens :
        StartsAs([with_rom(EmulatorNew, ClearRom) EXCEPT !.display = screen])

NextPixel == Tick \/ FlipPixel

SpecPixel == InitPixel /\ [][NextPixel]_vars

\* the bit of the frame buffer that holds pixel (x, y): byte and mask index
PixelBit(x, y) == <<pos_to_index(x, y), x % 8>>

\* C37: for x in 0..63 and y in 0..31, flip(x, y) returns true iff the pixel
\* was on before the call and inverts that pixel; no other pixel shares its
\* bit, and every other bit of the 256 bytes is unchanged; a flip directly
\* after a flip of the same pixel restores the buffer; 00E0
\* (DisplayBuffer::clear) zeroes every byte, so every pixel is off.
C37_FlipInvertsOnePixel ==
    [][/\ last'.op = "flip" =>
            LET x == last'.x
                y == last'.y
                index == pos_to_index(x, y)
            IN /\ ~panicked'
               /\ last'.is_turned_off = is_pixel_on(display, x, y)
               /\ is_pixel_on(display', x, y) = ~is_pixel_on(display, x, y)
               /\ \A px \in ScreenColumns, py \in ScreenRows :
                     <<px, py>> # <<x, y>> => PixelBit(px, py) # PixelBit(x, y)
               /\ index \in 0..(DISPLAY_BYTES - 1)
               /\ \A b \in 0..(DISPLAY_BYTES - 1) \ {index} : display'[b] = display[b]
               /\ BitXor(display'[index], display[index]) = BIT_MASKS(x % 8)
               /\ (last.op = "flip" /\ <<last.x, last.y>> = <<x, y>> =>
                      display' = last.before)
       /\ Executes({"ClearScreen"}) =>
            /\ \A b \in 0..(DISPLAY_BYTES - 1) : display'[b] = 0
            /\ ~is_pixel_on(display', 0, 0)
            /\ ~is_pixel_on(display', 63, 31)]_vars

\* the last pixel of the checkerboard has been flipped off and on again
C37_Witness ==
    /\ last.op = "flip"
    /\ <<last.x, last.y>> = <<63, 31>>
    /\ ~last.is_turned_off
    /\ hist.flips = 2
    /\ display[DISPLAY_BYTES - 1] = 85
    /\ display[0] = 170

---------------------------------------------------------------------------
(* 16-bit memory access and the fetch of a tick.                           *)

MaxWrites == 2

MaxFetches == 2

\* the first and last word of memory, the font, both sides of 0x200
WordAddresses == {0, 1, 80, 511, 512, 513, 514, 4094}

\* words with equal, zero and distinct bytes; 6012, 7AFF, 1200 and A2FF as
\* instructions
WrittenWords == {0, 255, 256, 4660, 65535, 24594, 31487, 4608, 41727}

\* Memory::write_u16 is called
WriteWord ==
    /\ ~panicked
    /\ hist.writes < MaxWrites
    /\ \E ptr \in WordAddresses, value \in WrittenWords :
          /\ memory' = write_u16(memory, ptr, value)
          /\ last' = [op |-> "write_u16", ptr |-> ptr, value |-> value]
    /\ hist' = [hist EXCEPT !.writes = @ + 1]
    /\ UNCHANGED <<configuration, cpu, stack, display, keyboard, delay_timer,
                   sound_timer, rng, panicked>>

\* the host calls Emulator::tick on the memory as written
TickWord ==
    /\ ~panicked
    /\ hist.fetches < MaxFetches
    /\ LET command == NextCommand(Emu)
       IN \E key \in IF command.name = "WaitKeyPress" THEN KeyOperands ELSE {0},
             random_byte \in IF command.name = "RandomAnd" THEN RandomBytes ELSE {0} :
             LET after == tick(Emu, key, random_byte)
             IN /\ SetEmu(after)
                /\ last' = [op |-> "tick", command |-> command, cpu |-> cpu]
                /\ hist' = [HistAfterTick(command, Emu, after)
                               EXCEPT !.fetches = @ + 1]

InitMemory == StartsAs(EmulatorNew)

NextMemory == WriteWord \/ TickWord

SpecMemory == InitMemory /\ [][NextMemory]_vars

\* the addresses that hold a non-zero byte before or after this step
TouchedAddresses == DOMAIN memory \cup DOMAIN memory'

\* C38: write_u16(a, w) followed by read_u16(a) returns w; the access is
\* big-endian: byte a is the high byte, byte a + 1 the low byte, and
\* read_u16(a) = 256 * memory[a] + memory[a + 1]; the write changes only
\* bytes a and a + 1; a tick fetches its instruction with this read at PC.
C38_WordAccessBigEndian ==
    [][/\ last'.op = "write_u16" =>
            LET a == last'.ptr
                w == last'.value
            IN /\ read_u16(memory', a) = w
               /\ read_u8(memory', a) = w \div 256
               /\ read_u8(memory', a + 1) = w % 256
               /\ read_u16(memory', a) = 256 * read_u8(memory', a) + read_u8(memory', a + 1)
               /\ \A b \in TouchedAddresses \ {a, a + 1} :
                     read_u8(memory', b) = read_u8(memory, b)
       /\ last'.op = "tick" =>
            /\ last'.command =
                  command_from(decode(256 * read_u8(memory, cpu.pc)
                                          + read_u8(memory, cpu.pc + 1)))
            /\ (last.op = "write_u16" /\ last.ptr = cpu.pc =>
                   last'.command = command_from(decode(last.value)))
            /\ (last'.command.name = "Load" =>
                   cpu'.registers[last'.command.register] = last'.command.value)]_vars

\* 6012 was written over 0x200 after another word, fetched and executed
C38_Witness ==
    /\ last.op = "tick"
    /\ last.command = [name |-> "Load", register |-> 0, value |-> 18]
    /\ last.cpu.pc = CHIP8_START
    /\ cpu.registers[0] = 18
    /\ read_u16(memory, CHIP8_START) = 24594
    /\ read_u16(memory, 4094) = 65535
    /\ hist.writes = 2

---------------------------------------------------------------------------
(* Two emulators built by new(), given the same ROM and the same key events *)
(* at the same ticks, each under its own clock.  The first is held in the   *)
(* variables, the second in hist.twin.  The random source is seeded with    *)
(* the constant 42, so its k-th byte is the same for both: hist.stream      *)
(* holds the bytes drawn so far.                                            *)

Twin == hist.twin

\* C001 C10F E09E 6305 A300 F155 F029 D015 and a jump to itself
RandomTwinRom ==
    RomBytes(<<W(12, 0, 0, 1), W(12, 1, 0, 15), W(14, 0, 9, 14), W(6, 3, 0, 5),
               W(10, 3, 0, 0), W(15, 1, 5, 5), W(15, 0, 2, 9), W(13, 0, 1, 5),
               W(1, 2, 1, 0)>>, <<>>)

\* 603C F015 0000 F107 313C C2FF C3FF and a jump to itself
DelayTwinRom ==
    RomBytes(<<W(6, 0, 3, 12), W(15, 0, 1, 5), 0, W(15, 1, 0, 7), W(3, 1, 3, 12),
               W(12, 2, 15, 15), W(12, 3, 15, 15), W(1, 2, 0, 14)>>, <<>>)

TwinRoms == {RandomTwinRom, DelayTwinRom}

\* the byte the source yields to an emulator that has drawn e.rng bytes
DrawnByte(e, stream, fresh) ==
    IF e.rng < Len(stream) THEN stream[e.rng + 1] ELSE fresh

\* the stream after an emulator has executed command
StreamAfter(e, command, stream, fresh) ==
    IF command.name = "RandomAnd" /\ e.rng >= Len(stream)
    THEN Append(stream, fresh) ELSE stream

\* the bytes the source can yield when command draws a byte not drawn before
FreshBytes(e, command, stream) ==
    IF command.name = "RandomAnd" /\ e.rng >= Len(stream) THEN RandomBytes ELSE {0}

\* the host calls tick on both emulators
TwinTick ==
    /\ ~panicked
    /\ ~Twin.panicked
    /\ LET command == NextCommand(Emu)
           twin_command == NextCommand(Twin)
       IN \E fresh \in FreshBytes(Emu, command, hist.stream) :
             LET stream == StreamAfter(Emu, command, hist.stream, fresh)
                 after == tick(Emu, 0, DrawnByte(Emu, hist.stream, fresh))
             IN \E twin_fresh \in FreshBytes(Twin, twin_command, stream) :
                   LET twin_after ==
                           tick(Twin, 0, DrawnByte(Twin, stream, twin_fresh))
                   IN /\ SetEmu(after)
                      /\ last' = [op |-> "tick", command |-> command, cpu |-> cpu]
                      /\ hist' = [HistAfterTick(command, Emu, after) EXCEPT
                                     !.twin = twin_after,
                                     !.stream = StreamAfter(Twin, twin_command, stream,
                                                            twin_fresh),
                                     !.leaked = @ \/ "LoadDelay" \in {command.name,
                                                                      twin_command.name}]

\* the host presses the same key on both emulators
TwinPressKey ==
    /\ ~panicked
    /\ ~Twin.panicked
    /\ hist.key_events < MaxKeyEvents
    /\ \E key \in HostKeys :
          /\ SetEmu(press_key(Emu, key))
          /\ last' = [op |-> "press_key", key |-> key]
          /\ hist' = [hist EXCEPT !.key_events = @ + 1,
                                  !.twin = press_key(Twin, key)]

\* the host releases the same key on both emulators
TwinReleaseKey ==
    /\ ~panicked
    /\ ~Twin.panicked
    /\ hist.key_events < MaxKeyEvents
    /\ \E key \in HostKeys :
          /\ SetEmu(release_key(Emu, key))
          /\ last' = [op |-> "release_key", key |-> key]
          /\ hist' = [hist EXCEPT !.key_events = @ + 1,
                                  !.twin = release_key(Twin, key)]

MaxTwinAdvances == 1

\* wall-clock time passes, d ms for the first emulator and twin_d for the second
TwinAdvance ==
    /\ ~panicked
    /\ ~Twin.panicked
    /\ hist.advances < MaxTwinAdvances
    /\ \E d \in Durations, twin_d \in Durations :
          /\ delay_timer' = delay_timer + d
          /\ sound_timer' = sound_timer + d
          /\ last' = [op |-> "advance", ms |-> d]
          /\ hist' = [hist EXCEPT !.advances = @ + 1, !.delay_since = @ + d,
                                  !.sound_since = @ + d,
                                  !.twin.delay_timer = @ + twin_d,
                                  !.twin.sound_timer = @ + twin_d]
    /\ UNCHANGED <<configuration, cpu, memory, stack, display, keyboard, rng, panicked>>

InitTwin ==
    \E rom \in TwinRoms :
        LET e == with_rom(EmulatorNew, rom)
        IN /\ configuration = e.configuration
           /\ cpu = e.cpu
           /\ memory = e.memory
           /\ stack = e.stack
           /\ display = e.display
           /\ keyboard = e.keyboard
           /\ delay_timer = e.delay_timer
           /\ sound_timer = e.sound_timer
           /\ rng = e.rng
           /\ panicked = e.panicked
           /\ last = [op |-> "new"]
           /\ hist = [HistNew EXCEPT !.twin = e]

NextTwin == TwinTick \/ TwinPressKey \/ TwinReleaseKey \/ TwinAdvance

SpecTwin == InitTwin /\ [][NextTwin]_vars

\* CXNN leaves in Vx no bit that is 0 in NN
MaskedByOperand ==
    Executes({"RandomAnd"}) =>
        /\ ~panicked'
        /\ \A k \in 0..7 : Bit(last'.command.value, k) = 0 =>
                              Bit(cpu'.registers[last'.command.register], k) = 0

\* after the step both emulators hold the same registers, memory and frame
\* buffer and have drawn the same number of bytes
TwinsAgree ==
    /\ cpu'.registers = hist'.twin.cpu.registers
    /\ memory' = hist'.twin.memory
    /\ display' = hist'.twin.display
    /\ rng' = hist'.twin.rng

=============================================================================
